---- MODULE Spec2Model ----
(***************************************************************************)
(* Model of the Dynatrace API client (dynatrace_client.py): the entity     *)
(* resolver get_deployments, the metric reader _get_metric_stats, the pod  *)
(* aggregation of get_workload_metrics and the JVM heap lookup.            *)
(*                                                                         *)
(* Python strings that the code searches (tag keys, tag values, names) are *)
(* sequences of one-character strings; dictionaries are records/functions  *)
(* whose DOMAIN is the set of keys present; a call's result is an outcome  *)
(* record, either a return value or a raised exception.                    *)
(***************************************************************************)
EXTENDS Integers, Sequences, FiniteSets, TLC

VARIABLES
    pc,       \* "start" before the call, "done" after it
    op,       \* the method called
    args,     \* its arguments
    world,    \* the platform's answers to the requests the call may issue
    outcome,  \* what the call returned or raised
    reqlog,   \* the requests issued, in order
    platform  \* the dashboards stored on the platform

vars == <<pc, op, args, world, outcome, reqlog, platform>>

(***************************************************************************)
(* Bounds of the model.                                                    *)
(***************************************************************************)
MaxEntities == 2

MaxTags == 2

MaxPods == 2

MaxVal == 2

MaxItems == 2

MaxPoints == 2

MaxPGs == 2

(***************************************************************************)
(* Python values.                                                          *)
(***************************************************************************)
Return(v) == [kind |-> "return", value |-> v]

Raise(e) == [kind |-> "raise", exc |-> e]

\* a step followed by the rest of a block (the try blocks of lines 101-212,
\* 348-381 and 455-516, the loop of lines 262-288): an exception raised by the
\* step leaves the block, otherwise the rest runs on the step's value
Then(step, Rest(_)) == IF step.kind = "raise" THEN step ELSE Rest(step.value)

\* try: <block> except Exception: return <default>
Except(block, default) == IF block.kind = "raise" THEN Return(default) ELSE block

\* dict.get(key, default)
Get(d, k, default) == IF k \in DOMAIN d THEN d[k] ELSE default

Uppers ==
    << "A", "B", "C", "D", "E", "F", "G", "H", "I", "J", "K", "L", "M",
       "N", "O", "P", "Q", "R", "S", "T", "U", "V", "W", "X", "Y", "Z" >>

Lowers ==
    << "a", "b", "c", "d", "e", "f", "g", "h", "i", "j", "k", "l", "m",
       "n", "o", "p", "q", "r", "s", "t", "u", "v", "w", "x", "y", "z" >>

\* str.lower() on one character
LowerChar(c) ==
    IF \E i \in DOMAIN Uppers : Uppers[i] = c
    THEN Lowers[CHOOSE i \in DOMAIN Uppers : Uppers[i] = c]
    ELSE c

\* str.lower()
Lower(s) == [i \in DOMAIN s |-> LowerChar(s[i])]

\* a containment test that an empty string never passes
InNonEmpty(sub, s) ==
    /\ sub # <<>>
    /\ \E i \in 0..(Len(s) - Len(sub)) : SubSeq(s, i + 1, i + Len(sub)) = sub

\* the Python operator `sub in s` on strings
In(sub, s) ==
    \E i \in 0..(Len(s) - Len(sub)) : SubSeq(s, i + 1, i + Len(sub)) = sub

\* the JSON null / Python None
None == <<"<None>">>

\* str(v) for a string or None
Str(v) == IF v = None THEN <<"N", "o", "n", "e">> ELSE v

(***************************************************************************)
(* String literals of the source and of the modelled platform data.        *)
(***************************************************************************)
StrCluster == <<"c", "l", "u", "s", "t", "e", "r">>

StrNamespace == <<"n", "a", "m", "e", "s", "p", "a", "c", "e">>

KeyAKSCluster == <<"A", "K", "S", " ", "C", "l", "u", "s", "t", "e", "r">>

KeyNamespace == <<"N", "a", "m", "e", "s", "p", "a", "c", "e">>

KeyNamespaceName == <<"n", "a", "m", "e", "s", "p", "a", "c", "e", "N", "a", "m", "e">>

KeyOther == <<"k", "i", "n", "d">>

ValAbc == <<"A", "b", "c">>

ValX == <<"x">>

NameAB == <<"a", "B">>

NameX == <<"x">>

(***************************************************************************)
(* The platform's answers to one HTTP request: a transport error, or an    *)
(* HTTP response with a status and a decoded JSON body.                    *)
(***************************************************************************)
TransportError == [kind |-> "transport_error"]

HttpError == [kind |-> "http", status |-> 500, json |-> [error |-> "server"]]

HttpOk(body) == [kind |-> "http", status |-> 200, json |-> body]

HttpAnswers(bodies) == {TransportError, HttpError} \cup {HttpOk(b) : b \in bodies}

\* requests.get + raise_for_status + response.json()
MakeRequest(resp) ==
    IF resp.kind = "transport_error" THEN Raise("ConnectionError")
    ELSE IF resp.status >= 400 THEN Raise("HTTPError")
    ELSE Return(resp.json)

\* a query sent with requests.post instead
GetRequestByPost(endpoint, selector) ==
    [method |-> "POST", endpoint |-> endpoint, data |-> selector]

GetRequest(endpoint, selector) ==
    [method |-> "GET", endpoint |-> endpoint, selector |-> selector]

\* requests.post + raise_for_status + response.json()
MakePostRequest(resp) ==
    IF resp.kind = "transport_error" THEN Raise("ConnectionError")
    ELSE IF resp.status >= 400 THEN Raise("HTTPError")
    ELSE Return(resp.json)

PostRequest(endpoint, data) ==
    [method |-> "POST", endpoint |-> endpoint, data |-> data]

\* the platform after it was sent the requests: a GET changes nothing, a POST
\* that the platform answers with a 2xx status stores its payload
RECURSIVE Served(_, _, _)
Served(stored, requests, post_answer) ==
    IF requests = <<>> THEN stored
    ELSE Served(IF Head(requests).method = "POST"
                   /\ post_answer.kind = "http" /\ post_answer.status < 400
                THEN Append(stored, Head(requests).data)
                ELSE stored,
                Tail(requests), post_answer)

(***************************************************************************)
(* Entities the platform may list for type("CLOUD_APPLICATION").           *)
(***************************************************************************)
Tags ==
    { [key |-> KeyAKSCluster, value |-> ValAbc],
      [key |-> KeyNamespace, stringRepresentation |-> ValAbc] }

SeqsUpTo(S, n) == UNION {[1..k -> S] : k \in 0..n}

TagLists == SeqsUpTo(Tags, MaxTags) \ {<<>>}

PropertyMaps ==
    { (KeyNamespaceName :> ValAbc) @@ (KeyOther :> ValX),
      (KeyNamespaceName :> None) }

EntityIds == {"", "CLOUD_APPLICATION-1"}

\* a JSON object with or without an optional field
WithField(rec, name, choices) ==
    {rec} \cup {(name :> c) @@ rec : c \in choices}

\* every field of an entity but its type is optional in the response
Entities ==
    UNION { UNION { WithField(p, "entityId", EntityIds)
                    : p \in WithField(t, "properties", PropertyMaps) }
            : t \in WithField([type |-> "CLOUD_APPLICATION"], "tags", TagLists) }

EntityLists == SeqsUpTo(Entities, MaxEntities)

Names == {NameAB, NameX}

\* a name that equals the value "Abc" but for the case of its letters
NameABC == <<"a", "B", "C">>

(***************************************************************************)
(* DynatraceClient.get_deployments                                         *)
(***************************************************************************)
\* the loop over an entity's tags (lines 133-151); tag_key.lower() raises
\* AttributeError when the key is null
\* a test of the tag value for equality with the namespace
NamespaceIsValue(namespace, tag_value) == Lower(namespace) = Lower(tag_value)

\* line 150: namespace.lower() in tag_value.lower()
NamespaceInValue(namespace, tag_value) == In(Lower(namespace), Lower(tag_value))

RECURSIVE ScanTags(_, _, _, _)
ScanTags(tags, cluster_name, namespace, st) ==
    IF tags = <<>> THEN Return(st)
    ELSE
        LET tag == Head(tags)
            tag_key == Get(tag, "key", <<>>)
            tag_value == Str(Get(tag, "value", Get(tag, "stringRepresentation", <<>>)))
        IN  IF tag_key = None THEN Raise("AttributeError")
            ELSE
                LET is_cluster == In(StrCluster, Lower(tag_key))
                    is_namespace == In(StrNamespace, Lower(tag_key))
                    st1 == [ cluster_match |->
                                 st.cluster_match
                                 \/ (is_cluster /\ In(Lower(cluster_name), Lower(tag_value))),
                             has_namespace_tag |-> st.has_namespace_tag \/ is_namespace,
                             namespace_match |->
                                 st.namespace_match
                                 \/ (is_namespace /\ NamespaceInValue(namespace, tag_value)) ]
                IN  ScanTags(Tail(tags), cluster_name, namespace, st1)

\* the loop over an entity's properties (lines 154-162)
ScanProperties(properties, namespace, st) ==
    LET ns_keys == {k \in DOMAIN properties : In(StrNamespace, Lower(k))}
    IN  [ cluster_match |-> st.cluster_match,
          has_namespace_tag |-> st.has_namespace_tag \/ ns_keys # {},
          namespace_match |->
              st.namespace_match
              \/ \E k \in ns_keys : In(Lower(namespace), Lower(Str(properties[k]))) ]

\* one iteration of the loop over all_entities, up to line 162
MatchEntity(entity, cluster_name, namespace) ==
    Then(ScanTags(Get(entity, "tags", <<>>), cluster_name, namespace,
                  [ cluster_match |-> FALSE, namespace_match |-> FALSE,
                    has_namespace_tag |-> FALSE ]),
         LAMBDA scanned :
             Return(ScanProperties(Get(entity, "properties", <<>>), namespace, scanned)))

\* the test of line 176 with `or` for `and`
IsSelectedEither(m) == m.cluster_match \/ m.namespace_match

\* line 176: an entity is added when both cluster and namespace match
IsSelected(m) == m.cluster_match /\ m.namespace_match

\* the test of line 180 without its `not`
UseFallbackInverted(acc) ==
    acc.has_any_namespace_tags /\ Len(acc.cluster_only_matches) > 0

\* line 180: the cluster-only fallback is taken
UseFallback(acc) ==
    ~acc.has_any_namespace_tags /\ Len(acc.cluster_only_matches) > 0

\* the accumulation that puts a new entity in front of the earlier ones
AddEntityInFront(entity, m, acc) ==
    [ matched_entities |->
          IF IsSelected(m)
          THEN <<entity>> \o acc.matched_entities
          ELSE acc.matched_entities,
      cluster_only_matches |->
          IF m.cluster_match
          THEN << [ entity |-> entity,
                    has_namespace_tag |-> m.has_namespace_tag,
                    namespace_match |-> m.namespace_match ] >>
               \o acc.cluster_only_matches
          ELSE acc.cluster_only_matches,
      has_any_namespace_tags |-> acc.has_any_namespace_tags \/ m.has_namespace_tag ]

\* the accumulation that notes namespace information of the requested
\* cluster's entities only
AddEntityPerCluster(entity, m, acc) ==
    [ matched_entities |->
          IF IsSelected(m)
          THEN Append(acc.matched_entities, entity)
          ELSE acc.matched_entities,
      cluster_only_matches |->
          IF m.cluster_match
          THEN Append(acc.cluster_only_matches,
                      [ entity |-> entity,
                        has_namespace_tag |-> m.has_namespace_tag,
                        namespace_match |-> m.namespace_match ])
          ELSE acc.cluster_only_matches,
      has_any_namespace_tags |->
          acc.has_any_namespace_tags \/ (m.cluster_match /\ m.has_namespace_tag) ]

\* lines 164-177: what one entity adds to the three accumulators
AddEntity(entity, m, acc) ==
    [ matched_entities |->
          IF IsSelected(m)
          THEN Append(acc.matched_entities, entity)
          ELSE acc.matched_entities,
      cluster_only_matches |->
          IF m.cluster_match
          THEN Append(acc.cluster_only_matches,
                      [ entity |-> entity,
                        has_namespace_tag |-> m.has_namespace_tag,
                        namespace_match |-> m.namespace_match ])
          ELSE acc.cluster_only_matches,
      has_any_namespace_tags |-> acc.has_any_namespace_tags \/ m.has_namespace_tag ]

\* the loop that leaves out an entity whose processing raises
RECURSIVE FilterEntitiesSkipping(_, _, _, _)
FilterEntitiesSkipping(all_entities, cluster_name, namespace, acc) ==
    IF all_entities = <<>> THEN Return(acc)
    ELSE IF MatchEntity(Head(all_entities), cluster_name, namespace).kind = "raise"
    THEN FilterEntitiesSkipping(Tail(all_entities), cluster_name, namespace, acc)
    ELSE Then(MatchEntity(Head(all_entities), cluster_name, namespace),
              LAMBDA m :
                  FilterEntitiesSkipping(Tail(all_entities), cluster_name, namespace,
                                         AddEntity(Head(all_entities), m, acc)))

\* the loop over all_entities (lines 118-177)
RECURSIVE FilterEntities(_, _, _, _)
FilterEntities(all_entities, cluster_name, namespace, acc) ==
    IF all_entities = <<>> THEN Return(acc)
    ELSE Then(MatchEntity(Head(all_entities), cluster_name, namespace),
              LAMBDA m :
                  FilterEntities(Tail(all_entities), cluster_name, namespace,
                                 AddEntity(Head(all_entities), m, acc)))

\* lines 180-212: the cluster-only fallback, or the entities matched on both
SelectEntities(acc) ==
    IF UseFallback(acc)
    THEN [i \in DOMAIN acc.cluster_only_matches |-> acc.cluster_only_matches[i].entity]
    ELSE acc.matched_entities

\* lines 113-212, on the decoded response
ResolveEntities(cluster_name, namespace, all_entities) ==
    IF all_entities = <<>> THEN Return(<<>>)
    ELSE Then(FilterEntities(all_entities, cluster_name, namespace,
                             [ matched_entities |-> <<>>,
                               cluster_only_matches |-> <<>>,
                               has_any_namespace_tags |-> FALSE ]),
              LAMBDA acc : Return(SelectEntities(acc)))

\* the body of the try block (lines 102-212)
GetDeploymentsTry(cluster_name, namespace, resp) ==
    Then(MakeRequest(resp),
         LAMBDA response :
             ResolveEntities(cluster_name, namespace, Get(response, "entities", <<>>)))

\* get_deployments without its exception handler
GetDeploymentsNoCatch(cluster_name, namespace, resp) ==
    GetDeploymentsTry(cluster_name, namespace, resp)

\* try ... except Exception: return [] (lines 101, 214-216)
GetDeployments(cluster_name, namespace, resp) ==
    Except(GetDeploymentsTry(cluster_name, namespace, resp), <<>>)

EntityBodies(lists) == {[entities |-> l] : l \in lists} \cup {[totalCount |-> 0]}

\* a call about to be made
Pending(o, a, w) ==
    /\ pc = "start"
    /\ op = o
    /\ args = a
    /\ world = w
    /\ outcome = [kind |-> "pending"]
    /\ reqlog = <<>>
    /\ platform = <<>>

\* the platform's answer to a dashboard-create POST; a world that does not
\* say how it would answer one accepts it
CreateAnswer ==
    IF "create" \in DOMAIN world THEN world.create
    ELSE HttpOk([id |-> <<"d", "1">>])

\* the end of a call: its outcome, the requests it issued and their effect
Complete(result) ==
    /\ outcome' = result.outcome
    /\ reqlog' = result.requests
    /\ platform' = Served(platform, result.requests, CreateAnswer)

DeploymentsCalls(lists) ==
    \E c \in Names, n \in Names, r \in HttpAnswers(EntityBodies(lists)) :
        Pending("get_deployments", [cluster_name |-> c, namespace |-> n],
                [entities |-> r])

\* calls for a namespace that is the whole of a tag value
WholeValueCalls ==
    \E r \in HttpAnswers(EntityBodies(EntityLists)) :
        Pending("get_deployments", [cluster_name |-> NameAB, namespace |-> NameABC],
                [entities |-> r])

\* calls with an empty cluster name, an empty namespace or both
WildcardCalls ==
    \E c \in {<<>>, NameAB}, n \in {<<>>, NameAB},
       r \in HttpAnswers(EntityBodies(EntityLists)) :
        /\ (c = <<>> \/ n = <<>>)
        /\ Pending("get_deployments", [cluster_name |-> c, namespace |-> n],
                   [entities |-> r])

CallGetDeployments ==
    /\ pc = "start"
    /\ op = "get_deployments"
    /\ Complete([ outcome |->
                      GetDeployments(args.cluster_name, args.namespace, world.entities),
                  requests |-> <<GetRequest("/api/v2/entities", "CLOUD_APPLICATION")>> ])
    /\ pc' = "done"
    /\ UNCHANGED <<op, args, world>>

(***************************************************************************)
(* DynatraceClient._get_metric_stats                                       *)
(***************************************************************************)
\* a data point of a series: a number, or null
Point(x) == <<x>>

NullPoint == <<>>

\* the values with None read as 0
NoneAsZero(values) ==
    {IF values[i] = NullPoint THEN 0 ELSE values[i][1] : i \in DOMAIN values}

\* [v for v in values if v is not None]
NonNull(values) == {values[i][1] : i \in {j \in DOMAIN values : values[j] # NullPoint}}

\* min(list, default=0.0)
MinDefault(S) == IF S = {} THEN 0 ELSE CHOOSE x \in S : \A y \in S : x <= y

\* max(list, default=0.0)
MaxDefault(S) == IF S = {} THEN 0 ELSE CHOOSE x \in S : \A y \in S : x >= y

TagMin == <<":", "m", "i", "n">>

TagMax == <<":", "m", "a", "x">>

ZeroStats == [min |-> 0, max |-> 0]

\* the loop over response['result'] (lines 359-372)
RECURSIVE ScanResult(_, _)
ScanResult(result, st) ==
    IF result = <<>> THEN st
    ELSE
        LET result_item == Head(result)
            metric_id == Get(result_item, "metricId", <<>>)
            data == Get(result_item, "data", <<>>)
            values == IF data # <<>> THEN Get(data[1], "values", <<>>) ELSE <<>>
            st1 == IF values # <<>>
                   THEN IF In(TagMin, metric_id)
                        THEN [st EXCEPT !.min = MinDefault(NonNull(values))]
                        ELSE IF In(TagMax, metric_id)
                        THEN [st EXCEPT !.max = MaxDefault(NonNull(values))]
                        ELSE st
                   ELSE st
        IN  ScanResult(Tail(result), st1)

\* the body of the try block (lines 349-381)
GetMetricStatsTry(resp) ==
    Then(MakeRequest(resp),
         LAMBDA response :
             IF "result" \in DOMAIN response /\ Len(response.result) > 0
             THEN Return(ScanResult(response.result, ZeroStats))
             ELSE Return(ZeroStats))

\* _get_metric_stats without its exception handler
GetMetricStatsNoCatch(resp) == GetMetricStatsTry(resp)

\* try ... except Exception: return {'min': 0.0, 'max': 0.0} (lines 348, 382-386)
GetMetricStats(resp) == Except(GetMetricStatsTry(resp), ZeroStats)

MetricRequest(metric_key, entity_id) ==
    GetRequest("/api/v2/metrics/query", <<metric_key, entity_id>>)

(***************************************************************************)
(* Metric responses of the platform.                                       *)
(***************************************************************************)
MetricIdMin == <<"k">> \o TagMin

MetricIdMax == <<"k">> \o TagMax

MetricIdPlain == <<"k">>

Points == {NullPoint} \cup {Point(x) : x \in 1..MaxVal}

Series == {[values |-> v] : v \in SeqsUpTo(Points, MaxPoints)}

ResultItems ==
    UNION { WithField([metricId |-> id], "data", {<<s>> : s \in Series})
            : id \in {MetricIdMin, MetricIdMax, MetricIdPlain} }

MetricBodies ==
    {[result |-> r] : r \in SeqsUpTo(ResultItems, MaxItems)}
    \cup {[totalCount |-> 0]}

\* the usual response: one :min series and one :max series, one point each
StatBody(a, b) ==
    [ result |->
        << [metricId |-> MetricIdMin, data |-> <<[values |-> <<Point(a)>>]>>],
           [metricId |-> MetricIdMax, data |-> <<[values |-> <<Point(b)>>]>>] >> ]

StatBodies == {StatBody(a, b) : a \in 0..MaxVal, b \in 0..MaxVal}

MetricStatsCalls ==
    \E r \in HttpAnswers(MetricBodies \cup StatBodies) :
        Pending("_get_metric_stats", [metric_key |-> "k", entity_id |-> "e"],
                [metric |-> r])

CallGetMetricStats ==
    /\ pc = "start"
    /\ op = "_get_metric_stats"
    /\ Complete([ outcome |-> GetMetricStats(world.metric),
                  requests |-> <<MetricRequest(args.metric_key, args.entity_id)>> ])
    /\ pc' = "done"
    /\ UNCHANGED <<op, args, world>>

(***************************************************************************)
(* DynatraceClient._get_pods_for_deployment                                *)
(***************************************************************************)
EntitiesRequest(selector) == GetRequest("/api/v2/entities", selector)

\* try: response.get('entities', []) except Exception: return [] (lines 407-415)
GetPodsForDeployment(resp) ==
    LET response == MakeRequest(resp)
    IN  IF response.kind = "raise" THEN <<>>
        ELSE Get(response.value, "entities", <<>>)

(***************************************************************************)
(* DynatraceClient._get_jvm_heap_metrics                                   *)
(*                                                                         *)
(* Its world h: h.pgs answers the process-group query, h.pods the pod      *)
(* query, h.pgs_via_pods the process-group query through the pods;         *)
(* h.primary[i] and h.alt[i] answer the usedHeap and memory.pool.used      *)
(* metric queries for the i-th process group.                              *)
(***************************************************************************)
HeapPodLimit == 10

\* pods[:10]
FirstPods(pods) ==
    SubSeq(pods, 1, IF Len(pods) < HeapPodLimit THEN Len(pods) ELSE HeapPodLimit)

\* lines 456-470: the process groups of the deployment, directly or through
\* its pods, with the requests issued
FindProcessGroups(h) ==
    LET response == MakeRequest(h.pgs)
        req1 == <<EntitiesRequest("PROCESS_GROUP runsOn deployment")>>
    IN  IF response.kind = "raise" THEN [outcome |-> response, requests |-> req1]
        ELSE IF Get(response.value, "entities", <<>>) # <<>>
        THEN [ outcome |-> Return(Get(response.value, "entities", <<>>)),
               requests |-> req1 ]
        ELSE
            LET pod_response == MakeRequest(h.pods)
                req2 == Append(req1, EntitiesRequest("CLOUD_APPLICATION_INSTANCE"))
            IN  IF pod_response.kind = "raise"
                THEN [outcome |-> pod_response, requests |-> req2]
                ELSE
                    LET pods == Get(pod_response.value, "entities", <<>>)
                    IN  IF pods = <<>>
                        THEN [outcome |-> Return(<<>>), requests |-> req2]
                        ELSE IF \E i \in DOMAIN FirstPods(pods) :
                                    "entityId" \notin DOMAIN pods[i]
                        THEN [outcome |-> Raise("KeyError"), requests |-> req2]
                        ELSE
                            LET pg_response == MakeRequest(h.pgs_via_pods)
                                req3 == Append(req2,
                                            EntitiesRequest("PROCESS_GROUP runsOn pods"))
                            IN  IF pg_response.kind = "raise"
                                THEN [outcome |-> pg_response, requests |-> req3]
                                ELSE [ outcome |->
                                           Return(Get(pg_response.value, "entities", <<>>)),
                                       requests |-> req3 ]

\* the test of lines 284 and 287 with `>=` for the first `>`
NonZeroOrEqual(stats) == stats.min >= 0 \/ stats.max > 0

\* lines 284, 287, 491 and 506: a reading counts when it is non-zero
NonZero(stats) == stats.min > 0 \/ stats.max > 0

\* the loops over process_groups (lines 480-493 and 497-508): the readings
\* that count, in order; an exception of _get_metric_stats would propagate
RECURSIVE HeapReadings(_, _)
HeapReadings(answers, n) ==
    IF n = 0 THEN Return(<<>>)
    ELSE Then(HeapReadings(answers, n - 1),
              LAMBDA rest :
                  Then(GetMetricStats(answers[n]),
                       LAMBDA heap_metrics :
                           Return(IF NonZero(heap_metrics)
                                  THEN Append(rest, heap_metrics)
                                  ELSE rest)))

HeapRequests(metric_key, process_groups) ==
    [ i \in DOMAIN process_groups |->
        MetricRequest(metric_key, Get(process_groups[i], "entityId", <<>>)) ]

\* sum(m['max'] for m in values)
RECURSIVE SumMax(_)
SumMax(values) ==
    IF values = <<>> THEN 0 ELSE Head(values).max + SumMax(Tail(values))

\* the combination that adds the maxes up, as the pod aggregation does
CombineHeapSum(readings) ==
    IF readings # <<>>
    THEN [ min |-> MinDefault({readings[i].min : i \in DOMAIN readings}),
           max |-> SumMax(readings) ]
    ELSE ZeroStats

\* lines 510-516
CombineHeap(readings) ==
    IF readings # <<>>
    THEN [ min |-> MinDefault({readings[i].min : i \in DOMAIN readings}),
           max |-> MaxDefault({readings[i].max : i \in DOMAIN readings}) ]
    ELSE ZeroStats

\* the lookup that reads both keys and combines all their readings
ReadHeapBothKeys(primary, alt, requests, alt_requests) ==
    IF primary.kind = "raise" THEN [outcome |-> primary, requests |-> requests]
    ELSE IF alt.kind = "raise"
    THEN [outcome |-> alt, requests |-> requests \o alt_requests]
    ELSE [ outcome |-> Return(CombineHeap(primary.value \o alt.value)),
           requests |-> requests \o alt_requests ]

\* lines 477-516: the primary key's readings, or, when there are none, the
\* alternate key's
ReadHeap(primary, alt, requests, alt_requests) ==
    IF primary.kind = "raise" THEN [outcome |-> primary, requests |-> requests]
    ELSE IF primary.value # <<>>
    THEN [outcome |-> Return(CombineHeap(primary.value)), requests |-> requests]
    ELSE IF alt.kind = "raise"
    THEN [outcome |-> alt, requests |-> requests \o alt_requests]
    ELSE [ outcome |-> Return(CombineHeap(alt.value)),
           requests |-> requests \o alt_requests ]

\* lines 472-516, on the process groups found
HeapOfProcessGroups(h, found) ==
    IF found.outcome.kind = "raise" THEN found
    ELSE IF found.outcome.value = <<>>
    THEN [outcome |-> Return(ZeroStats), requests |-> found.requests]
    ELSE ReadHeap(HeapReadings(h.primary, Len(found.outcome.value)),
                  HeapReadings(h.alt, Len(found.outcome.value)),
                  found.requests \o HeapRequests("usedHeap", found.outcome.value),
                  HeapRequests("memory.pool.used", found.outcome.value))

\* the body of the try block (lines 456-516)
GetJvmHeapMetricsTry(h) == HeapOfProcessGroups(h, FindProcessGroups(h))

\* try ... except Exception: return {'min': 0.0, 'max': 0.0}, with the
\* requests issued before the exception
ExceptHeap(block) ==
    IF block.outcome.kind = "raise"
    THEN [outcome |-> Return(ZeroStats), requests |-> block.requests]
    ELSE block

\* try ... except Exception: return {'min': 0.0, 'max': 0.0} (lines 455, 518-520)
GetJvmHeapMetrics(h) == ExceptHeap(GetJvmHeapMetricsTry(h))

(***************************************************************************)
(* DynatraceClient.get_workload_metrics                                    *)
(*                                                                         *)
(* Its world w: w.pods answers the pod query, w.cpu[i] and w.memory[i] the *)
(* two metric queries for the i-th pod, w.heap is the world of the heap    *)
(* lookup.                                                                 *)
(***************************************************************************)
\* the heap element of the result when no heap metrics were fetched (None)
NoStats == [none |-> TRUE]

\* lines 269-288: the per-pod readings that are kept, in pod order; an
\* exception of _get_metric_stats would propagate
RECURSIVE KeptReadings(_, _)
KeptReadings(answers, n) ==
    IF n = 0 THEN Return(<<>>)
    ELSE Then(KeptReadings(answers, n - 1),
              LAMBDA rest :
                  Then(GetMetricStats(answers[n]),
                       LAMBDA metrics :
                           Return(IF NonZero(metrics)
                                  THEN Append(rest, metrics)
                                  ELSE rest)))

\* the aggregation taking the largest per-pod max instead of the sum
AggregateLargestMax(values) ==
    IF values # <<>>
    THEN LET positive == {values[i].min : i \in {j \in DOMAIN values : values[j].min > 0}}
         IN  IF positive = {} THEN Raise("ValueError")
             ELSE Return([ min |-> MinDefault(positive),
                           max |-> MaxDefault({values[i].max : i \in DOMAIN values}) ])
    ELSE Return(ZeroStats)

\* the aggregation taking the smallest per-pod min, zero included
AggregateSmallestMin(values) ==
    IF values # <<>>
    THEN Return([ min |-> MinDefault({values[i].min : i \in DOMAIN values}),
                  max |-> SumMax(values) ])
    ELSE Return(ZeroStats)

\* lines 291-305: min() of an empty sequence raises ValueError
Aggregate(values) ==
    IF values # <<>>
    THEN LET positive == {values[i].min : i \in {j \in DOMAIN values : values[j].min > 0}}
         IN  IF positive = {} THEN Raise("ValueError")
             ELSE Return([min |-> MinDefault(positive), max |-> SumMax(values)])
    ELSE Return(ZeroStats)

\* the requests of a loop that asks for the CPU of every pod first, then for
\* the memory of every pod
PodRequestsByMetric(pods) ==
    [i \in 1..(2 * Len(pods)) |->
        IF i <= Len(pods)
        THEN MetricRequest("cpu.usage", Get(pods[i], "entityId", <<>>))
        ELSE MetricRequest("memory.usage", Get(pods[i - Len(pods)], "entityId", <<>>))]

\* the requests of the loop over pods (lines 262-282)
RECURSIVE PodRequests(_)
PodRequests(pods) ==
    IF pods = <<>> THEN <<>>
    ELSE << MetricRequest("cpu.usage", Get(Head(pods), "entityId", <<>>)),
            MetricRequest("memory.usage", Get(Head(pods), "entityId", <<>>)) >>
         \o PodRequests(Tail(pods))

\* lines 259-305: the two aggregates of the per-pod readings
AggregatePods(w, pod_count) ==
    Then(KeptReadings(w.cpu, pod_count),
         LAMBDA all_cpu_values :
             Then(KeptReadings(w.memory, pod_count),
                  LAMBDA all_memory_values :
                      Then(Aggregate(all_cpu_values),
                           LAMBDA aggregated_cpu :
                               Then(Aggregate(all_memory_values),
                                    LAMBDA aggregated_memory :
                                        Return(<<aggregated_cpu, aggregated_memory>>)))))

\* a return that has None for a heap lookup without a reading
WithHeapOrNone(aggregated, heap, pod_count, requests) ==
    [ outcome |-> Return(<< aggregated[1], aggregated[2],
                            IF heap.outcome.value = ZeroStats THEN NoStats
                            ELSE heap.outcome.value,
                            pod_count >>),
      requests |-> requests \o heap.requests ]

\* line 319 with the heap metrics fetched
WithHeap(aggregated, heap, pod_count, requests) ==
    [ outcome |-> Return(<<aggregated[1], aggregated[2], heap.outcome.value, pod_count>>),
      requests |-> requests \o heap.requests ]

\* lines 307-319
ReturnMetrics(include_heap, w, aggregated, pod_count, requests) ==
    IF aggregated.kind = "raise" THEN [outcome |-> aggregated, requests |-> requests]
    ELSE IF include_heap
    THEN WithHeap(aggregated.value, GetJvmHeapMetrics(w.heap), pod_count, requests)
    ELSE [ outcome |-> Return(<< aggregated.value[1], aggregated.value[2],
                                 NoStats, pod_count >>),
           requests |-> requests ]

\* get_workload_metrics without the early return for an empty pod list
MetricsOfPodsNoShortCut(include_heap, w, pods) ==
    ReturnMetrics(include_heap, w, AggregatePods(w, Len(pods)), Len(pods),
                  <<EntitiesRequest("CLOUD_APPLICATION_INSTANCE")>>
                  \o PodRequests(pods))

\* lines 252-319, on the pods listed
MetricsOfPods(include_heap, w, pods) ==
    IF Len(pods) = 0
    THEN [ outcome |-> Return(<<ZeroStats, ZeroStats, NoStats, 0>>),
           requests |-> <<EntitiesRequest("CLOUD_APPLICATION_INSTANCE")>> ]
    ELSE ReturnMetrics(include_heap, w, AggregatePods(w, Len(pods)), Len(pods),
                       <<EntitiesRequest("CLOUD_APPLICATION_INSTANCE")>>
                       \o PodRequests(pods))

GetWorkloadMetrics(include_heap, w) ==
    MetricsOfPods(include_heap, w, GetPodsForDeployment(w.pods))

(***************************************************************************)
(* The worlds of the heap lookup and of get_workload_metrics.              *)
(***************************************************************************)
Failures == {TransportError, HttpError}

Pod(i) == [entityId |-> <<"POD", i>>]

PodList(n) == [i \in 1..n |-> Pod(i)]

\* a pod listed without its entityId
AnonymousPods == <<[type |-> "CLOUD_APPLICATION_INSTANCE"]>>

ProcessGroupList(n) == [i \in 1..n |-> [entityId |-> <<"PG", i>>]]

EntityBody(list) == HttpOk([entities |-> list])

Readings == {HttpError} \cup {HttpOk(b) : b \in StatBodies}

\* an answer that yields no non-zero reading
Quiet(answer) ==
    answer.kind = "transport_error" \/ answer.status >= 400
    \/ answer.json = StatBody(0, 0)

\* the answers to the metric queries for n process groups; the alternate
\* key's answers are enumerated only when that key is queried
HeapAnswers(n) ==
    UNION { { [primary |-> p, alt |-> a]
              : a \in IF \A i \in 1..n : Quiet(p[i])
                      THEN [1..n -> Readings]
                      ELSE {[i \in 1..n |-> HttpError]} }
            : p \in [1..n -> Readings] }

HeapWorld(pgs, pods, pgs_via_pods, answers) ==
    [ pgs |-> pgs, pods |-> pods, pgs_via_pods |-> pgs_via_pods,
      primary |-> answers.primary, alt |-> answers.alt ]

NoAnswers == [primary |-> <<>>, alt |-> <<>>]

HeapWorlds(max_pgs) ==
    \* the process-group query fails
    { HeapWorld(f, HttpError, HttpError, NoAnswers) : f \in Failures }
    \* the deployment has process groups
    \cup UNION { { HeapWorld(EntityBody(ProcessGroupList(n)), HttpError, HttpError, a)
                   : a \in HeapAnswers(n) } : n \in 1..max_pgs }
    \* it has none, and the pod query fails or lists no usable pod
    \cup { HeapWorld(EntityBody(<<>>), r, HttpError, NoAnswers)
           : r \in Failures \cup {EntityBody(<<>>), EntityBody(AnonymousPods)} }
    \* the process-group query through the pods fails or finds none
    \cup { HeapWorld(HttpOk([totalCount |-> 0]), EntityBody(PodList(1)), r, NoAnswers)
           : r \in Failures \cup {EntityBody(<<>>)} }
    \* the pods have process groups
    \cup UNION { { HeapWorld(EntityBody(<<>>), EntityBody(PodList(1)),
                             EntityBody(ProcessGroupList(n)), a)
                   : a \in HeapAnswers(n) } : n \in 1..max_pgs }

UnusedHeapWorld == HeapWorld(HttpError, HttpError, HttpError, NoAnswers)

JvmHeapCalls ==
    \E h \in HeapWorlds(MaxPGs) :
        Pending("_get_jvm_heap_metrics",
                [deployment_entity_id |-> "CLOUD_APPLICATION-1"], h)

CallGetJvmHeapMetrics ==
    /\ pc = "start"
    /\ op = "_get_jvm_heap_metrics"
    /\ Complete(GetJvmHeapMetrics(world))
    /\ pc' = "done"
    /\ UNCHANGED <<op, args, world>>

\* the answers to the pod query that yield no pod
NoPodAnswers == Failures \cup {HttpOk([totalCount |-> 0]), EntityBody(<<>>)}

WorkloadArgs(include_heap) ==
    [deployment_entity_id |-> "CLOUD_APPLICATION-1", include_heap |-> include_heap]

\* calls for CPU and memory only: every combination of per-pod readings
PlainWorkloadCalls ==
    \/ \E r \in NoPodAnswers :
        Pending("get_workload_metrics", WorkloadArgs(FALSE),
                [pods |-> r, cpu |-> <<>>, memory |-> <<>>, heap |-> UnusedHeapWorld])
    \/ \E n \in 1..MaxPods :
        \E c \in [1..n -> Readings], m \in [1..n -> Readings] :
            Pending("get_workload_metrics", WorkloadArgs(FALSE),
                    [ pods |-> EntityBody(PodList(n)), cpu |-> c, memory |-> m,
                      heap |-> UnusedHeapWorld ])

\* readings of a failed request, of a busy pod and of a pod whose minimum is 0
SampleReadings ==
    {HttpError, HttpOk(StatBody(1, MaxVal)), HttpOk(StatBody(0, MaxVal))}

\* calls with include_heap: a sample of per-pod readings with every world of
\* a heap lookup over at most one process group
HeapWorkloadCalls ==
    \E n \in 0..MaxPods :
        \E c \in [1..n -> SampleReadings], m \in [1..n -> SampleReadings],
           h \in HeapWorlds(1) :
            Pending("get_workload_metrics", WorkloadArgs(TRUE),
                    [pods |-> EntityBody(PodList(n)), cpu |-> c, memory |-> m, heap |-> h])

CallGetWorkloadMetrics ==
    /\ pc = "start"
    /\ op = "get_workload_metrics"
    /\ Complete(GetWorkloadMetrics(args.include_heap, world))
    /\ pc' = "done"
    /\ UNCHANGED <<op, args, world>>

(***************************************************************************)
(* DynatraceClient.__init__ (dynatrace_client.py, lines 14-33): the         *)
(* credentials come from the arguments or, failing that, the environment.   *)
(***************************************************************************)
UrlVar == "DYNATRACE_URL"

TokenVar == "DYNATRACE_API_TOKEN"

\* str.rstrip('/')
RECURSIVE RStrip(_)
RStrip(s) ==
    IF s # <<>> /\ s[Len(s)] = "/" THEN RStrip(SubSeq(s, 1, Len(s) - 1)) ELSE s

\* the Python expression `a or b` on strings and None
Or(a, b) == IF a = None \/ a = <<>> THEN b ELSE a

\* a constructor that accepts empty credentials
NewClientLenient(base_url, api_token) ==
    Return([base_url |-> base_url, api_token |-> api_token])

\* lines 27-33
NewClient(base_url, api_token) ==
    IF base_url = <<>> \/ api_token = <<>> THEN Raise("ValueError")
    ELSE Return([base_url |-> base_url, api_token |-> api_token])

\* lines 22-33; os.getenv(name, '') is '' for an unset variable
Construct(base_url, api_token, env) ==
    NewClient(RStrip(Or(base_url, Get(env, UrlVar, <<>>))),
              Or(api_token, Get(env, TokenVar, <<>>)))

(***************************************************************************)
(* DynatraceClient.create_dashboard (dynatrace_client.py, lines 522-538)    *)
(***************************************************************************)
DashboardsEndpoint == "/api/config/v1/dashboards"

\* create_dashboard without its exception handler
CreateDashboardNoCatch(resp) ==
    Then(MakePostRequest(resp), LAMBDA response : Return(Get(response, "id", None)))

\* try: response = POST; return response.get('id') except Exception: return None
CreateDashboard(resp) ==
    Except(Then(MakePostRequest(resp), LAMBDA response : Return(Get(response, "id", None))),
           None)

(***************************************************************************)
(* create_deployment_dashboard (create_dashboard.py, lines 9-286)           *)
(***************************************************************************)
\* the factor of the tile positions (lines 55-56)
TilePitch == 304

\* the width and height of a tile (lines 57-58)
TileSize == 304

\* the number of columns (line 116)
TilesPerRow == 4

\* the advance that never starts a new row
AdvanceNoWrap(pos) == [row |-> pos.row, col |-> pos.col + 1]

\* tile_col += 1; if tile_col >= 4: tile_col = 0; tile_row += 1
Advance(pos) ==
    IF pos.col + 1 >= TilesPerRow
    THEN [row |-> pos.row + 1, col |-> 0]
    ELSE [row |-> pos.row, col |-> pos.col + 1]

\* a tile of the given kind for a deployment at a position: its name, the
\* metric it charts, the entity it filters by and its bounds
Tile(kind, metric, deployment, pos) ==
    [ name |-> <<Get(deployment, "displayName", "Unknown"), kind>>,
      metric |-> metric,
      criteria |-> IF kind = "JVM Heap" THEN <<>>
                   ELSE <<Get(deployment, "entityId", "")>>,
      bounds |-> [ top |-> pos.row * TilePitch, left |-> pos.col * TilePitch,
                   width |-> TileSize, height |-> TileSize ] ]

\* tiles.append(tile) at the current position
PlaceTile(st, kind, metric, deployment) ==
    [tiles |-> Append(st.tiles, Tile(kind, metric, deployment, st.pos)), pos |-> st.pos]

\* the advance to the next position
Move(st) == [tiles |-> st.tiles, pos |-> Advance(st.pos)]

\* lines 49-182: the CPU tile, the advance, the memory tile
PlaceUsageTiles(st, deployment) ==
    PlaceTile(Move(PlaceTile(st, "CPU", "builtin:cloud.kubernetes.workload.cpu.usage",
                             deployment)),
              "Memory", "builtin:cloud.kubernetes.workload.memory.usage", deployment)

\* the loop body without the heap tile
AddTilesNoHeap(st, deployment, include_heap) ==
    Move(PlaceUsageTiles(st, deployment))

\* one iteration of the loop over deployments (lines 43-256)
AddTiles(st, deployment, include_heap) ==
    Move(IF include_heap
         THEN PlaceTile(Move(PlaceUsageTiles(st, deployment)),
                        "JVM Heap", "builtin:tech.generic.mem.usedHeap", deployment)
         ELSE PlaceUsageTiles(st, deployment))

\* the loop over deployments (lines 39-256)
RECURSIVE BuildTiles(_, _, _)
BuildTiles(deployments, include_heap, st) ==
    IF deployments = <<>> THEN st.tiles
    ELSE BuildTiles(Tail(deployments), include_heap,
                    AddTiles(st, Head(deployments), include_heap))

\* lines 36 and 259-273
DashboardConfig(cluster_name, namespace, tiles) ==
    [ name |-> <<"K8s Deployments", cluster_name, namespace>>,
      shared |-> TRUE,
      tiles |-> tiles ]

EntitiesGet == GetRequest("/api/v2/entities", "CLOUD_APPLICATION")

\* lines 278-286: what the run prints about the dashboard
Report(dashboard_id, requests) ==
    [ outcome |->
          Return(IF dashboard_id.value # None /\ dashboard_id.value # <<>>
                 THEN [message |-> "created", id |-> dashboard_id.value]
                 ELSE [message |-> "failed"]),
      requests |-> requests ]

\* the requests of a run that sends the create request again when it failed
CreateRequestsRetrying(dashboard, answer) ==
    IF answer.kind = "transport_error" \/ answer.status >= 400
    THEN << EntitiesGet, PostRequest(DashboardsEndpoint, dashboard),
            PostRequest(DashboardsEndpoint, dashboard) >>
    ELSE <<EntitiesGet, PostRequest(DashboardsEndpoint, dashboard)>>

\* the requests of a run that reaches line 276: the entity query and one
\* create request, whatever the answer to it
CreateRequests(dashboard, answer) ==
    <<EntitiesGet, PostRequest(DashboardsEndpoint, dashboard)>>

\* lines 29-286, on the deployments resolved
DashboardOf(cluster_name, namespace, include_heap, w, deployments) ==
    IF deployments = <<>>
    THEN [outcome |-> Return([message |-> "none_found"]), requests |-> <<EntitiesGet>>]
    ELSE Report(CreateDashboard(w.create),
                CreateRequests(
                    DashboardConfig(cluster_name, namespace,
                                    BuildTiles(deployments, include_heap,
                                               [ tiles |-> <<>>,
                                                 pos |-> [row |-> 0, col |-> 0] ])),
                    w.create))

\* lines 22-27, on the outcome of the constructor
WithClient(client, cluster_name, namespace, include_heap, w) ==
    IF client.kind = "raise" THEN [outcome |-> client, requests |-> <<>>]
    ELSE DashboardOf(cluster_name, namespace, include_heap, w,
                     GetDeployments(cluster_name, namespace, w.entities).value)

CreateDeploymentDashboard(cluster_name, namespace, include_heap, w) ==
    WithClient(Construct(None, None, w.env), cluster_name, namespace, include_heap, w)

(***************************************************************************)
(* The runs of create_deployment_dashboard.                                 *)
(***************************************************************************)
MaxDeployments == 5

GoodEnv == (UrlVar :> <<"h", "/">>) @@ (TokenVar :> <<"t">>)

\* the i-th deployment of the cluster, without namespace information
Workload(i) ==
    [ type |-> "CLOUD_APPLICATION",
      entityId |-> "CLOUD_APPLICATION-" \o ToString(i),
      displayName |-> "app-" \o ToString(i),
      tags |-> <<[key |-> KeyAKSCluster, value |-> ValAbc]>> ]

WorkloadList(n) == [i \in 1..n |-> Workload(i)]

\* n deployments, a deployment listed without a name and an id, and one of
\* another cluster
DashboardLists ==
    {WorkloadList(n) : n \in 0..MaxDeployments}
    \cup { <<[type |-> "CLOUD_APPLICATION",
              tags |-> <<[key |-> KeyAKSCluster, value |-> ValAbc]>>]>>,
           <<[type |-> "CLOUD_APPLICATION",
              tags |-> <<[key |-> KeyAKSCluster, value |-> ValX]>>]>> }

\* the answers to the create request: failures, a new dashboard's id, an
\* answer without an id
CreateAnswers ==
    HttpAnswers({[id |-> <<"d", "1">>], [name |-> "K8s Deployments"]})

DashboardCalls ==
    \E i \in BOOLEAN, e \in {GoodEnv, <<>>},
       r \in HttpAnswers(EntityBodies(DashboardLists)), c \in CreateAnswers :
        Pending("create_deployment_dashboard",
                [cluster_name |-> NameAB, namespace |-> NameX, include_heap |-> i],
                [env |-> e, entities |-> r, create |-> c])

CallCreateDeploymentDashboard ==
    /\ pc = "start"
    /\ op = "create_deployment_dashboard"
    /\ Complete(CreateDeploymentDashboard(args.cluster_name, args.namespace,
                                          args.include_heap, world))
    /\ pc' = "done"
    /\ UNCHANGED <<op, args, world>>

(***************************************************************************)
(* get_deployment_metrics (get_deployment_metrics.py, lines 47-209).  Its   *)
(* world w: w.env is the environment, w.entities answers the entity query,  *)
(* w.workloads[d] is the world of get_workload_metrics for the d-th         *)
(* deployment resolved.                                                     *)
(***************************************************************************)
\* the assignment of a tuple to n names
Unpack(value, n) == IF Len(value) = n THEN Return(value) ELSE Raise("ValueError")

\* the outcome of `name_1, ..., name_n = client.get_workload_metrics(...)`
Destructure(fetched, n) ==
    IF fetched.outcome.kind = "raise" THEN fetched.outcome
    ELSE Unpack(fetched.outcome.value, n)

\* lines 84-85
Skipped(deployment) ==
    "displayName" \in DOMAIN deployment /\ deployment.displayName # "engine"

\* lines 98-123: the result of one deployment; the heap columns are added
\* when include_heap is set and heap metrics came back
Row(deployment, cluster_name, namespace, include_heap, metrics) ==
    IF include_heap /\ metrics[3] # NoStats
    THEN [ deployment_name |-> Get(deployment, "displayName", "Unknown"),
           namespace |-> namespace, cluster |-> cluster_name,
           pod_count |-> metrics[4], cpu |-> metrics[1], memory |-> metrics[2],
           heap |-> metrics[3] ]
    ELSE [ deployment_name |-> Get(deployment, "displayName", "Unknown"),
           namespace |-> namespace, cluster |-> cluster_name,
           pod_count |-> metrics[4], cpu |-> metrics[1], memory |-> metrics[2] ]

\* the loop over deployments (lines 83-125), from the d-th on
RECURSIVE FetchRows(_, _, _, _, _, _, _)
RECURSIVE AppendRow(_, _, _, _, _, _, _, _, _)
FetchRows(deployments, d, cluster_name, namespace, include_heap, w, acc) ==
    IF d > Len(deployments)
    THEN [outcome |-> Return(acc.rows), requests |-> acc.requests]
    ELSE IF Skipped(deployments[d])
    THEN FetchRows(deployments, d + 1, cluster_name, namespace, include_heap, w, acc)
    ELSE AppendRow(deployments, d, cluster_name, namespace, include_heap, w, acc,
                   Destructure(GetWorkloadMetrics(include_heap, w.workloads[d]), 4),
                   GetWorkloadMetrics(include_heap, w.workloads[d]).requests)

\* lines 91-125 once get_workload_metrics has answered
AppendRow(deployments, d, cluster_name, namespace, include_heap, w, acc, metrics, requests) ==
    IF metrics.kind = "raise"
    THEN [outcome |-> metrics, requests |-> acc.requests \o requests]
    ELSE FetchRows(deployments, d + 1, cluster_name, namespace, include_heap, w,
                   [ rows |-> Append(acc.rows,
                                     Row(deployments[d], cluster_name, namespace,
                                         include_heap, metrics.value)),
                     requests |-> acc.requests \o requests ])

\* lines 128-206: each output format (csv, json, table) emits one row for
\* every result, in order
Emit(fetched) ==
    IF fetched.outcome.kind = "raise" THEN fetched
    ELSE [ outcome |-> Return([message |-> "rows", rows |-> fetched.outcome.value]),
           requests |-> fetched.requests ]

\* lines 71-206, on the deployments resolved
MetricsOf(cluster_name, namespace, include_heap, w, deployments) ==
    IF deployments = <<>>
    THEN [outcome |-> Return([message |-> "none_found"]), requests |-> <<EntitiesGet>>]
    ELSE Emit(FetchRows(deployments, 1, cluster_name, namespace, include_heap, w,
                        [rows |-> <<>>, requests |-> <<EntitiesGet>>]))

\* lines 66-69, on the outcome of the constructor
MetricsWithClient(client, cluster_name, namespace, include_heap, w) ==
    IF client.kind = "raise" THEN [outcome |-> client, requests |-> <<>>]
    ELSE MetricsOf(cluster_name, namespace, include_heap, w,
                   GetDeployments(cluster_name, namespace, w.entities).value)

GetDeploymentMetrics(cluster_name, namespace, include_heap, w) ==
    MetricsWithClient(Construct(None, None, w.env), cluster_name, namespace,
                      include_heap, w)

(***************************************************************************)
(* example_basic_usage (example_usage.py, lines 9-50); the cluster and the  *)
(* namespace, literals in the example, are arguments here.                  *)
(***************************************************************************)
\* the loop over deployments (lines 29-50), from the d-th on: the result of
\* get_workload_metrics is assigned to three names (lines 37-41)
RECURSIVE ExampleLoop(_, _, _, _)
RECURSIVE ExampleStep(_, _, _, _, _, _)
ExampleLoop(deployments, d, w, acc) ==
    IF d > Len(deployments)
    THEN [outcome |-> Return(acc.rows), requests |-> acc.requests]
    ELSE ExampleStep(deployments, d, w, acc,
                     Destructure(GetWorkloadMetrics(FALSE, w.workloads[d]), 3),
                     GetWorkloadMetrics(FALSE, w.workloads[d]).requests)

ExampleStep(deployments, d, w, acc, metrics, requests) ==
    IF metrics.kind = "raise"
    THEN [outcome |-> metrics, requests |-> acc.requests \o requests]
    ELSE ExampleLoop(deployments, d + 1, w,
                     [ rows |-> Append(acc.rows,
                                       [ name |-> Get(deployments[d], "displayName",
                                                      "Unknown"),
                                         cpu |-> metrics.value[1],
                                         memory |-> metrics.value[2],
                                         pod_count |-> metrics.value[3] ]),
                       requests |-> acc.requests \o requests ])

ExampleWithClient(client, cluster_name, namespace, w) ==
    IF client.kind = "raise" THEN [outcome |-> client, requests |-> <<>>]
    ELSE ExampleLoop(GetDeployments(cluster_name, namespace, w.entities).value, 1, w,
                     [rows |-> <<>>, requests |-> <<EntitiesGet>>])

ExampleBasicUsage(cluster_name, namespace, w) ==
    ExampleWithClient(Construct(None, None, w.env), cluster_name, namespace, w)

(***************************************************************************)
(* The command-line entry points: the exit status of a run.                 *)
(***************************************************************************)
\* get_deployment_metrics.py lines 259-267 and create_dashboard.py lines
\* 312-324: try: <run> except Exception: return 1; return 0
MainExit(run) ==
    [ outcome |-> Return(IF run.outcome.kind = "raise" THEN 1 ELSE 0),
      requests |-> run.requests ]

MetricsMain(a, w) ==
    MainExit(GetDeploymentMetrics(a.cluster_name, a.namespace, a.include_heap, w))

DashboardMain(a, w) ==
    MainExit(CreateDeploymentDashboard(a.cluster_name, a.namespace, a.include_heap, w))

(***************************************************************************)
(* debug_entities.main (debug_entities.py, lines 186-261).  Its world w:    *)
(* w.types and w.types_again answer the two entity-type queries; the        *)
(* answers to its entity queries do not influence the run, every exception  *)
(* of a query being caught (lines 102-113, 182).                            *)
(***************************************************************************)
TypesGet == GetRequest("/api/v2/entityTypes", "")

\* `if not test_api_connection(client)` (lines 9-18, 225): the response, or
\* None after an exception; an empty response is falsy as well
ConnectionOk(resp) ==
    MakeRequest(resp).kind = "return" /\ DOMAIN MakeRequest(resp).value # {}

\* list_entity_types (lines 21-46)
ListEntityTypes(resp) ==
    Except(Then(MakeRequest(resp), LAMBDA response : Return(Get(response, "types", <<>>))),
           <<>>)

\* lines 245-252
CommonTypes ==
    << "CLOUD_APPLICATION", "CLOUD_APPLICATION_WORKLOAD", "WORKLOAD",
       "CLOUD_APPLICATION_INSTANCE", "KUBERNETES_CLUSTER", "KUBERNETES_NODE" >>

\* lines 254-256: one entity query for every common type that is listed
RECURSIVE CommonQueries(_, _)
CommonQueries(types, entity_types) ==
    IF types = <<>> THEN <<>>
    ELSE (IF \E i \in DOMAIN entity_types : entity_types[i] = Head(types)
          THEN <<GetRequest("/api/v2/entities", Head(types))>>
          ELSE <<>>)
         \o CommonQueries(Tail(types), entity_types)

\* lines 237-256; test_entity_type "" stands for an option not given
DebugQueries(entity_types, test_entity_type) ==
    IF test_entity_type # ""
    THEN <<GetRequest("/api/v2/entities", test_entity_type)>>
    ELSE CommonQueries(CommonTypes, entity_types)

\* lines 215-261; falling off the end of main gives exit status 0
DebugMain(a, w) ==
    IF Construct(None, None, w.env).kind = "raise"
    THEN [outcome |-> Return(1), requests |-> <<>>]
    ELSE IF ~ConnectionOk(w.types)
    THEN [outcome |-> Return(1), requests |-> <<TypesGet>>]
    ELSE IF a.show_all_apps
    THEN [outcome |-> Return(0), requests |-> <<TypesGet, EntitiesGet>>]
    ELSE [ outcome |-> Return(0),
           requests |-> <<TypesGet, TypesGet>>
                        \o DebugQueries(ListEntityTypes(w.types_again).value,
                                        a.test_entity_type) ]

(***************************************************************************)
(* The runs of the scripts.                                                 *)
(***************************************************************************)
MaxRows == 2

\* the environments: each of the two variables unset, empty or set; a URL
\* may consist of slashes only
Envs ==
    UNION { WithField(e, TokenVar, {<<>>, <<"t">>})
            : e \in WithField(<<>>, UrlVar, {<<>>, <<"/">>, <<"h">>, <<"h", "/">>}) }

\* a deployment of the cluster, named or not, without namespace information
NamedWorkloads ==
    WithField([ type |-> "CLOUD_APPLICATION", entityId |-> "CLOUD_APPLICATION-1",
                tags |-> <<[key |-> KeyAKSCluster, value |-> ValAbc]>> ],
              "displayName", {"engine", "web"})

\* a deployment without pods, one with a busy pod and a JVM, one whose pod
\* reports a CPU minimum of 0, one whose pod query fails
WorkloadSample ==
    { [pods |-> EntityBody(<<>>), cpu |-> <<>>, memory |-> <<>>, heap |-> UnusedHeapWorld],
      [ pods |-> EntityBody(PodList(1)),
        cpu |-> <<HttpOk(StatBody(1, MaxVal))>>,
        memory |-> <<HttpOk(StatBody(1, MaxVal))>>,
        heap |-> HeapWorld(EntityBody(ProcessGroupList(1)), HttpError, HttpError,
                           [ primary |-> <<HttpOk(StatBody(1, MaxVal))>>,
                             alt |-> <<HttpError>> ]) ],
      [ pods |-> EntityBody(PodList(1)),
        cpu |-> <<HttpOk(StatBody(0, MaxVal))>>,
        memory |-> <<HttpOk(StatBody(1, MaxVal))>>,
        heap |-> UnusedHeapWorld ],
      [pods |-> HttpError, cpu |-> <<>>, memory |-> <<>>, heap |-> UnusedHeapWorld] }

\* the worlds of a run over n deployments
RowWorlds(envs) ==
    UNION { { [env |-> e, entities |-> EntityBody(l), workloads |-> ws]
              : e \in envs, l \in [1..n -> NamedWorkloads],
                ws \in [1..n -> WorkloadSample] }
            : n \in 0..MaxRows }
    \cup {[env |-> e, entities |-> HttpError, workloads |-> <<>>] : e \in envs}

RunArgs(include_heap) ==
    [cluster_name |-> NameAB, namespace |-> NameX, include_heap |-> include_heap]

MetricsCalls ==
    \E i \in BOOLEAN, w \in RowWorlds({GoodEnv}) :
        Pending("get_deployment_metrics", RunArgs(i), w)

CallGetDeploymentMetrics ==
    /\ pc = "start"
    /\ op = "get_deployment_metrics"
    /\ Complete(GetDeploymentMetrics(args.cluster_name, args.namespace,
                                     args.include_heap, world))
    /\ pc' = "done"
    /\ UNCHANGED <<op, args, world>>

ExampleCalls ==
    \E w \in RowWorlds({GoodEnv, <<>>}) :
        Pending("example_basic_usage", [cluster_name |-> NameAB, namespace |-> NameX], w)

CallExampleBasicUsage ==
    /\ pc = "start"
    /\ op = "example_basic_usage"
    /\ Complete(ExampleBasicUsage(args.cluster_name, args.namespace, world))
    /\ pc' = "done"
    /\ UNCHANGED <<op, args, world>>

\* a run over one deployment, for every environment
MainWorlds ==
    { [env |-> e, entities |-> r, workloads |-> <<ws>>, create |-> c]
      : e \in Envs,
        r \in {HttpError, EntityBody(<<>>), EntityBody(WorkloadList(1))},
        ws \in WorkloadSample, c \in {HttpError, HttpOk([id |-> <<"d", "1">>])} }

MetricsMainCalls ==
    \E i \in BOOLEAN, w \in MainWorlds :
        Pending("get_deployment_metrics.main", RunArgs(i), w)

CallMetricsMain ==
    /\ pc = "start"
    /\ op = "get_deployment_metrics.main"
    /\ Complete(MetricsMain(args, world))
    /\ pc' = "done"
    /\ UNCHANGED <<op, args, world>>

DashboardMainCalls ==
    \E i \in BOOLEAN, w \in MainWorlds :
        Pending("create_dashboard.main", RunArgs(i), w)

CallDashboardMain ==
    /\ pc = "start"
    /\ op = "create_dashboard.main"
    /\ Complete(DashboardMain(args, world))
    /\ pc' = "done"
    /\ UNCHANGED <<op, args, world>>

\* the answers to an entity-type query
TypeAnswers ==
    HttpAnswers({ [types |-> <<"CLOUD_APPLICATION", "HOST", "KUBERNETES_NODE">>],
                  [types |-> <<>>], [totalCount |-> 0] })
    \cup {HttpOk(<<>>)}

DebugMainCalls ==
    \E e \in Envs, s \in BOOLEAN, t \in {"", "HOST"},
       r \in TypeAnswers, r2 \in TypeAnswers :
        Pending("debug_entities.main",
                [show_all_apps |-> s, test_entity_type |-> t],
                [env |-> e, types |-> r, types_again |-> r2])

CallDebugMain ==
    /\ pc = "start"
    /\ op = "debug_entities.main"
    /\ Complete(DebugMain(args, world))
    /\ pc' = "done"
    /\ UNCHANGED <<op, args, world>>

(***************************************************************************)
(* A further invocation: the same call is made again, against the          *)
(* platform as the earlier invocations left it.                            *)
(***************************************************************************)
MaxStored == 2

Rerun ==
    /\ pc = "done"
    /\ Len(platform) < MaxStored
    /\ pc' = "start"
    /\ outcome' = [kind |-> "pending"]
    /\ reqlog' = <<>>
    /\ UNCHANGED <<op, args, world, platform>>

Init ==
    \/ DeploymentsCalls(EntityLists)
    \/ WholeValueCalls
    \/ WildcardCalls
    \/ MetricStatsCalls
    \/ JvmHeapCalls
    \/ PlainWorkloadCalls
    \/ HeapWorkloadCalls
    \/ DashboardCalls
    \/ MetricsCalls
    \/ ExampleCalls
    \/ MetricsMainCalls
    \/ DashboardMainCalls
    \/ DebugMainCalls

Next ==
    \/ CallGetDeployments
    \/ CallGetMetricStats
    \/ CallGetJvmHeapMetrics
    \/ CallGetWorkloadMetrics
    \/ CallCreateDeploymentDashboard
    \/ CallGetDeploymentMetrics
    \/ CallExampleBasicUsage
    \/ CallMetricsMain
    \/ CallDashboardMain
    \/ CallDebugMain
    \/ Rerun

Spec == Init /\ [][Next]_vars

(***************************************************************************)
(* The same calls, with entity lists that also hold an entity one of whose *)
(* tags has a null key: tag_key.lower() raises on it.                      *)
(***************************************************************************)
NullKeyTag == [key |-> None, value |-> ValAbc]

MalformedEntities ==
    { [type |-> "CLOUD_APPLICATION", entityId |-> "CLOUD_APPLICATION-1", tags |-> t]
      : t \in {l \in SeqsUpTo(Tags \cup {NullKeyTag}, MaxTags) :
                   \E i \in DOMAIN l : l[i] = NullKeyTag} }

WellFormedSample ==
    {e \in Entities : DOMAIN e = {"type", "entityId", "tags"} /\ e.entityId # ""}

MalformedEntityLists ==
    {l \in SeqsUpTo(WellFormedSample \cup MalformedEntities, MaxEntities) :
        \E i \in DOMAIN l : l[i] \in MalformedEntities}

InitMalformed == Init \/ DeploymentsCalls(MalformedEntityLists)

SpecMalformed == InitMalformed /\ [][Next]_vars

(***************************************************************************)
(* Properties of get_deployments.                                          *)
(***************************************************************************)
DeploymentsDone == pc = "done" /\ op = "get_deployments"

\* the entity list the platform returned (nothing when the request failed)
FetchedEntities ==
    IF world.entities.kind = "http" /\ world.entities.status < 400
    THEN Get(world.entities.json, "entities", <<>>)
    ELSE <<>>

EntityTags(e) == IF "tags" \in DOMAIN e THEN e.tags ELSE <<>>

EntityProperties(e) == IF "properties" \in DOMAIN e THEN e.properties ELSE <<>>

TagText(tag) ==
    IF "value" \in DOMAIN tag THEN Str(tag.value)
    ELSE IF "stringRepresentation" \in DOMAIN tag THEN Str(tag.stringRepresentation)
    ELSE <<>>

IsClusterKey(k) == In(StrCluster, Lower(k))

IsNamespaceKey(k) == In(StrNamespace, Lower(k))

\* cluster-match: the cluster name is a case-insensitive substring of a tag
\* value whose key contains "cluster"
ClusterMatch(e, cluster_name) ==
    \E i \in DOMAIN EntityTags(e) :
        /\ "key" \in DOMAIN EntityTags(e)[i]
        /\ IsClusterKey(EntityTags(e)[i].key)
        /\ In(Lower(cluster_name), Lower(TagText(EntityTags(e)[i])))

CarriesNamespaceTag(e) ==
    \E i \in DOMAIN EntityTags(e) :
        "key" \in DOMAIN EntityTags(e)[i] /\ IsNamespaceKey(EntityTags(e)[i].key)

CarriesNamespaceProperty(e) ==
    \E k \in DOMAIN EntityProperties(e) : IsNamespaceKey(k)

\* namespace-match: the namespace is a case-insensitive substring of a
\* namespace-indicating tag value or property value
NamespaceMatch(e, namespace) ==
    \/ \E i \in DOMAIN EntityTags(e) :
        /\ "key" \in DOMAIN EntityTags(e)[i]
        /\ IsNamespaceKey(EntityTags(e)[i].key)
        /\ In(Lower(namespace), Lower(TagText(EntityTags(e)[i])))
    \/ \E k \in DOMAIN EntityProperties(e) :
        /\ IsNamespaceKey(k)
        /\ In(Lower(namespace), Lower(Str(EntityProperties(e)[k])))

BothMatch(e) ==
    ClusterMatch(e, args.cluster_name) /\ NamespaceMatch(e, args.namespace)

OnlyClusterMatch(e) == ClusterMatch(e, args.cluster_name)

SomeNamespaceInfo ==
    \E i \in DOMAIN FetchedEntities :
        CarriesNamespaceTag(FetchedEntities[i]) \/ CarriesNamespaceProperty(FetchedEntities[i])

SomeNamespaceTag ==
    \E i \in DOMAIN FetchedEntities : CarriesNamespaceTag(FetchedEntities[i])

\* C1: when some fetched entity carries a namespace-indicating tag or
\* property, get_deployments returns exactly the fetched entities that are
\* both cluster-matched and namespace-matched, in response order.
C1_ExactlyBothMatched ==
    (DeploymentsDone /\ SomeNamespaceInfo)
        => outcome = Return(SelectSeq(FetchedEntities, BothMatch))

\* a call that returned one entity and left out one that matches the cluster
\* but not the namespace
C1_Witness ==
    /\ DeploymentsDone /\ SomeNamespaceInfo
    /\ outcome.kind = "return" /\ Len(outcome.value) = 1
    /\ \E i \in DOMAIN FetchedEntities :
        /\ ClusterMatch(FetchedEntities[i], args.cluster_name)
        /\ ~NamespaceMatch(FetchedEntities[i], args.namespace)

\* C2 as stated: when no fetched entity carries a namespace tag,
\* get_deployments returns exactly the cluster-matched entities.
C2_NoNamespaceTagFallback ==
    (DeploymentsDone /\ ~SomeNamespaceTag)
        => outcome = Return(SelectSeq(FetchedEntities, OnlyClusterMatch))

\* C2 amended: when no fetched entity carries a namespace-indicating tag or
\* property, get_deployments returns exactly the cluster-matched entities,
\* whatever namespace was requested.
C2_NoNamespaceInfoFallback ==
    (DeploymentsDone /\ ~SomeNamespaceInfo)
        => outcome = Return(SelectSeq(FetchedEntities, OnlyClusterMatch))

\* the fallback returned two entities for a namespace none of them carries
C2_Witness ==
    /\ DeploymentsDone /\ ~SomeNamespaceInfo
    /\ outcome.kind = "return" /\ Len(outcome.value) = 2
    /\ Len(FetchedEntities) = 2

\* C8: get_deployments never raises, and returns the empty list when the
\* entity request fails with an HTTP or transport error.
C8_NeverRaises ==
    DeploymentsDone
        => /\ outcome.kind = "return"
           /\ (world.entities.kind = "transport_error" \/ world.entities.status >= 400)
                => outcome.value = <<>>

\* the entity request failed and the call is over
C8_Witness ==
    /\ DeploymentsDone
    /\ world.entities.kind = "transport_error"
    /\ outcome = Return(<<>>)

HasEntityId(e) == "entityId" \in DOMAIN e /\ e.entityId # ""

\* C9: every entity get_deployments returns has a non-empty entityId.
C9_ReturnedHaveEntityId ==
    DeploymentsDone
        => \A i \in DOMAIN outcome.value : HasEntityId(outcome.value[i])

(***************************************************************************)
(* Properties of get_workload_metrics, _get_metric_stats and the heap      *)
(* lookup.                                                                 *)
(***************************************************************************)
WorkloadDone == pc = "done" /\ op = "get_workload_metrics"

Failed(answer) == answer.kind = "transport_error" \/ answer.status >= 400

\* the pods the pod query listed
ListedPods ==
    IF Failed(world.pods) THEN <<>> ELSE Get(world.pods.json, "entities", <<>>)

NumPods == Len(ListedPods)

\* what a pod reports for a metric: the single point of its :min and :max
\* series, and {0, 0} when the request failed
Reported(answer) ==
    IF Failed(answer) THEN [min |-> 0, max |-> 0]
    ELSE [ min |-> answer.json.result[1].data[1].values[1][1],
           max |-> answer.json.result[2].data[1].values[1][1] ]

IsStats(v) == DOMAIN v = {"min", "max"} /\ v.min \in Nat /\ v.max \in Nat

\* C3: for a non-empty pod set, get_workload_metrics returns a well-formed
\* result whatever the per-pod responses and failures are; it never raises.
C3_AlwaysWellFormed ==
    (WorkloadDone /\ NumPods > 0)
        => /\ outcome.kind = "return"
           /\ IsStats(outcome.value[1])
           /\ IsStats(outcome.value[2])
           /\ outcome.value[4] = NumPods

RECURSIVE SumSeq(_)
SumSeq(q) == IF q = <<>> THEN 0 ELSE q[1] + SumSeq(Tail(q))

PodMaxes(answers) == [i \in 1..NumPods |-> Reported(answers[i]).max]

PodMins(answers) == {Reported(answers[i]).min : i \in 1..NumPods}

\* C4: the aggregated CPU max and the aggregated memory max that
\* get_workload_metrics returns are the sums of the per-pod max values over
\* all pods.
C4_MaxIsSum ==
    (WorkloadDone /\ outcome.kind = "return")
        => /\ outcome.value[1].max = SumSeq(PodMaxes(world.cpu))
           /\ outcome.value[2].max = SumSeq(PodMaxes(world.memory))

\* two pods, and a returned CPU max above every pod's own max
C4_Witness ==
    /\ WorkloadDone /\ outcome.kind = "return" /\ NumPods = 2
    /\ \A i \in 1..NumPods : outcome.value[1].max > Reported(world.cpu[i]).max
    /\ \A i \in 1..NumPods : outcome.value[2].max > Reported(world.memory[i]).max

SmallestPositive(S) == CHOOSE x \in S : x > 0 /\ \A y \in S : y > 0 => x <= y

\* C5: when some pod reports a strictly positive min, the aggregated min that
\* get_workload_metrics returns is the smallest strictly positive per-pod min.
C5_MinIsSmallestPositive ==
    (WorkloadDone /\ outcome.kind = "return")
        => /\ (\E x \in PodMins(world.cpu) : x > 0)
                => outcome.value[1].min = SmallestPositive(PodMins(world.cpu))
           /\ (\E x \in PodMins(world.memory) : x > 0)
                => outcome.value[2].min = SmallestPositive(PodMins(world.memory))

\* a pod with min = 0 and max > 0 beside a pod with a positive min, and the
\* returned CPU min is the positive one
C5_Witness ==
    /\ WorkloadDone /\ outcome.kind = "return" /\ NumPods = 2
    /\ \E i \in 1..NumPods :
        Reported(world.cpu[i]).min = 0 /\ Reported(world.cpu[i]).max > 0
    /\ outcome.value[1].min > 0

AllPodsZero ==
    \A i \in 1..NumPods :
        /\ Reported(world.cpu[i]) = [min |-> 0, max |-> 0]
        /\ Reported(world.memory[i]) = [min |-> 0, max |-> 0]

\* C6: when every pod of a non-empty pod set reports {0, 0} for CPU and for
\* memory, get_workload_metrics returns cpu = {0, 0}, memory = {0, 0} and
\* pod_count = the number of pods.
C6_AllZero ==
    (WorkloadDone /\ NumPods > 0 /\ AllPodsZero)
        => /\ outcome.kind = "return"
           /\ outcome.value[1] = [min |-> 0, max |-> 0]
           /\ outcome.value[2] = [min |-> 0, max |-> 0]
           /\ outcome.value[4] = NumPods

\* two pods answered with explicit zero readings
C6_Witness ==
    /\ WorkloadDone /\ NumPods = 2 /\ AllPodsZero
    /\ \A i \in 1..NumPods : ~Failed(world.cpu[i]) /\ ~Failed(world.memory[i])
    /\ outcome.kind = "return" /\ outcome.value[4] = 2

\* the answers, with every failed request answered by a {0, 0} reading instead
ZeroWhereFailed(answers) ==
    [i \in DOMAIN answers |->
        IF Failed(answers[i]) THEN HttpOk(StatBody(0, 0)) ELSE answers[i]]

\* C7: a failed CPU or memory request of a pod counts as {0, 0} for that pod
\* and metric: the outcome is the one of the same call with every failed
\* metric request answered by a {0, 0} reading.
C7_FailureCountsAsZero ==
    WorkloadDone
        => outcome =
               GetWorkloadMetrics(
                   args.include_heap,
                   [world EXCEPT !.cpu = ZeroWhereFailed(world.cpu),
                                 !.memory = ZeroWhereFailed(world.memory)]).outcome

\* the CPU request of the first pod failed and the aggregate is the second
\* pod's reading
C7_Witness ==
    /\ WorkloadDone /\ NumPods = 2
    /\ Failed(world.cpu[1]) /\ ~Failed(world.cpu[2])
    /\ Reported(world.cpu[2]).min > 0
    /\ outcome.kind = "return"
    /\ outcome.value[1] = Reported(world.cpu[2])

Ordered(stats) == (stats.min # 0 /\ stats.max # 0) => stats.min <= stats.max

\* C10: every {min, max} pair produced by _get_metric_stats, by the CPU and
\* memory aggregation of get_workload_metrics and by _get_jvm_heap_metrics
\* has min <= max whenever both are non-zero.
C10_MinAtMostMax ==
    /\ (pc = "done" /\ op = "_get_metric_stats") => Ordered(outcome.value)
    /\ (pc = "done" /\ op = "_get_jvm_heap_metrics") => Ordered(outcome.value)
    /\ (WorkloadDone /\ outcome.kind = "return")
        => /\ Ordered(outcome.value[1])
           /\ Ordered(outcome.value[2])
           /\ outcome.value[3] # NoStats => Ordered(outcome.value[3])

(***************************************************************************)
(* Properties of create_deployment_dashboard.                              *)
(***************************************************************************)
DashboardDone == pc = "done" /\ op = "create_deployment_dashboard"

\* the run got past the constructor
ClientBuilt == outcome.kind = "return"

\* the deployments the resolver returned to the run
Resolved == GetDeployments(args.cluster_name, args.namespace, world.entities).value

IsPost(r) == r.method = "POST"

Posts == SelectSeq(reqlog, IsPost)

\* the tile list of the dashboard the run sent
PostedTiles == Posts[1].data.tiles

TilesPerDeployment == IF args.include_heap THEN 3 ELSE 2

TileKinds == IF args.include_heap THEN <<"CPU", "Memory", "JVM Heap">> ELSE <<"CPU", "Memory">>

\* C11: for N resolved deployments the dashboard that
\* create_deployment_dashboard builds has exactly 2N tiles without
\* include_heap and 3N with it: per deployment, in order, one CPU tile, one
\* memory tile and, when enabled, one heap tile.
C11_TileCount ==
    (DashboardDone /\ ClientBuilt /\ Resolved # <<>>)
        => /\ Len(Posts) = 1
           /\ Len(PostedTiles) = TilesPerDeployment * Len(Resolved)
           /\ \A d \in DOMAIN Resolved : \A j \in DOMAIN TileKinds :
                PostedTiles[(d - 1) * TilesPerDeployment + j].name
                    = <<Get(Resolved[d], "displayName", "Unknown"), TileKinds[j]>>

\* three deployments with heap tiles: nine tiles
C11_Witness ==
    /\ DashboardDone /\ ClientBuilt /\ args.include_heap
    /\ Len(Resolved) = 3
    /\ Len(Posts) = 1 /\ Len(PostedTiles) = 9

\* C12: the i-th tile (0-based) of the tile list has top = (i div 4) * 304,
\* left = (i mod 4) * 304 and width = height = 304, with and without
\* include_heap; so no two tiles share a position.
C12_TileGrid ==
    (DashboardDone /\ ClientBuilt /\ Resolved # <<>>)
        => /\ \A i \in DOMAIN PostedTiles :
                PostedTiles[i].bounds
                    = [ top |-> ((i - 1) \div 4) * 304, left |-> ((i - 1) % 4) * 304,
                        width |-> 304, height |-> 304 ]
           /\ \A i, j \in DOMAIN PostedTiles :
                (PostedTiles[i].bounds = PostedTiles[j].bounds) => i = j

\* a dashboard without heap tiles that fills two rows and starts a third
C12_Witness ==
    /\ DashboardDone /\ ClientBuilt /\ ~args.include_heap
    /\ Len(Posts) = 1
    /\ \E i \in DOMAIN PostedTiles :
        PostedTiles[i].bounds.top = 608 /\ PostedTiles[i].bounds.left = 304

CreateFailed == world.create.kind = "transport_error" \/ world.create.status >= 400

\* C13: one run of create_deployment_dashboard issues exactly one
\* dashboard-create POST when at least one deployment was resolved and none
\* when the resolver returned the empty list; a failed create is not
\* repeated and yields None from create_dashboard, not an exception.
C13_OneCreate ==
    DashboardDone
        => /\ Len(Posts) = IF ClientBuilt /\ Resolved # <<>> THEN 1 ELSE 0
           /\ CreateFailed => CreateDashboard(world.create) = Return(None)
           /\ (ClientBuilt /\ Resolved # <<>> /\ CreateFailed)
                => outcome = Return([message |-> "failed"]) /\ platform = <<>>

\* two deployments resolved, the create request failed and was sent once
C13_Witness ==
    /\ DashboardDone /\ ClientBuilt /\ Len(Resolved) = 2 /\ CreateFailed
    /\ Len(Posts) = 1
    /\ outcome = Return([message |-> "failed"])

(***************************************************************************)
(* Frame of the read-only calls.                                           *)
(***************************************************************************)
ReadOnlyCall == op \in {"get_deployments", "get_workload_metrics"}

\* C14: get_deployments and get_workload_metrics (with or without
\* include_heap) only read remote state: every request they issue is a GET,
\* never a POST, and no step of any sequence of such calls changes what is
\* stored on the platform.
C14_ReadOnly ==
    [][ReadOnlyCall
        => /\ platform' = platform
           /\ \A i \in DOMAIN reqlog' : reqlog'[i].method = "GET"]_vars

\* a call with include_heap that went through pods and process groups
C14_Witness ==
    /\ WorkloadDone /\ args.include_heap
    /\ Len(reqlog) >= 6
    /\ \A i \in DOMAIN reqlog : reqlog[i].method = "GET"
    /\ platform = <<>>

(***************************************************************************)
(* The scripts.                                                             *)
(***************************************************************************)
MainDone ==
    /\ pc = "done"
    /\ op \in {"get_deployment_metrics.main", "create_dashboard.main",
               "debug_entities.main"}

\* what the lookup of a credential yields: the argument when one is given,
\* else the environment variable, else the empty string
Supplied(arg, env, var) ==
    IF arg # None /\ arg # <<>> THEN arg
    ELSE IF var \in DOMAIN env THEN env[var] ELSE <<>>

CredentialArgs == {None, <<>>, <<"k">>}

\* the exit status of the run
ExitStatus == outcome.value

\* C15: when the platform URL or the API token is empty after the lookup of
\* argument and environment, constructing the client fails, and each of the
\* three command-line entry points returns a non-zero exit status without
\* having issued a request.
C15_MissingCredentialsAbort ==
    MainDone
        => /\ \A u \in CredentialArgs, t \in CredentialArgs :
                (Supplied(u, world.env, UrlVar) = <<>>
                 \/ Supplied(t, world.env, TokenVar) = <<>>)
                    => Construct(u, t, world.env).kind = "raise"
           /\ (Supplied(None, world.env, UrlVar) = <<>>
               \/ Supplied(None, world.env, TokenVar) = <<>>)
                  => /\ outcome.kind = "return"
                     /\ ExitStatus # 0
                     /\ reqlog = <<>>

\* the debug script run with a URL but no token: exit status 1, no request
C15_Witness ==
    /\ MainDone /\ op = "debug_entities.main"
    /\ Supplied(None, world.env, UrlVar) = <<"h">>
    /\ TokenVar \notin DOMAIN world.env
    /\ outcome = Return(1)
    /\ reqlog = <<>>

MetricsDone == pc = "done" /\ op = "get_deployment_metrics"

\* the rows the run emitted
Rows == outcome.value.rows

\* C16: get_deployment_metrics fetches metrics for every deployment that
\* get_deployments returned and emits exactly one row for each, in resolver
\* order, whatever the deployment's displayName.
C16_RowPerDeployment ==
    (MetricsDone /\ outcome.kind = "return" /\ Resolved # <<>>)
        => /\ Len(Rows) = Len(Resolved)
           /\ \A d \in DOMAIN Rows :
                Rows[d].deployment_name = Get(Resolved[d], "displayName", "Unknown")
           /\ Len(reqlog) >= 1 + Len(Resolved)

ExampleDone == pc = "done" /\ op = "example_basic_usage"

\* C17: what get_workload_metrics returns when called without include_heap
\* can be assigned to the three names (cpu_metrics, memory_metrics,
\* pod_count): the example, once it has a client, ends normally whenever
\* get_workload_metrics returns for each of its deployments.
C17_TripleDestructuring ==
    ( /\ ExampleDone
      /\ Construct(None, None, world.env).kind = "return"
      /\ \A d \in DOMAIN Resolved :
            GetWorkloadMetrics(FALSE, world.workloads[d]).outcome.kind = "return" )
        => outcome.kind = "return"

\* C18: when the pod query yields no pod, get_workload_metrics returns
\* cpu = {0, 0}, memory = {0, 0} and pod_count = 0 and has issued the pod
\* query only: no metric request and no process-group or heap request, also
\* with include_heap.
C18_ZeroPodsShortCircuit ==
    (WorkloadDone /\ NumPods = 0)
        => /\ outcome.kind = "return"
           /\ outcome.value[1] = [min |-> 0, max |-> 0]
           /\ outcome.value[2] = [min |-> 0, max |-> 0]
           /\ outcome.value[4] = 0
           /\ reqlog = <<EntitiesRequest("CLOUD_APPLICATION_INSTANCE")>>

\* a call with include_heap whose pod query succeeded with an empty list
C18_Witness ==
    /\ WorkloadDone /\ args.include_heap
    /\ world.pods = EntityBody(<<>>)
    /\ outcome.kind = "return" /\ outcome.value[4] = 0
    /\ Len(reqlog) = 1

(***************************************************************************)
(* _get_metric_stats.                                                       *)
(***************************************************************************)
MetricStatsDone == pc = "done" /\ op = "_get_metric_stats"

\* the series of the response
ResponseSeries ==
    IF Failed(world.metric) THEN <<>> ELSE Get(world.metric.json, "result", <<>>)

\* the positions of the series whose metricId carries the tag
Tagged(tag) ==
    {i \in DOMAIN ResponseSeries : In(tag, Get(ResponseSeries[i], "metricId", <<>>))}

\* the data points of a series that are not None
DataPoints(item) ==
    IF "data" \in DOMAIN item /\ item.data # <<>> /\ "values" \in DOMAIN item.data[1]
    THEN { item.data[1].values[i][1]
           : i \in {j \in DOMAIN item.data[1].values : item.data[1].values[j] # <<>>} }
    ELSE {}

\* the data points of the series carrying the tag; none when it is missing
TaggedPoints(tag) == UNION {DataPoints(ResponseSeries[i]) : i \in Tagged(tag)}

Least(S) == IF S = {} THEN 0 ELSE CHOOSE x \in S : \A y \in S : x <= y

Greatest(S) == IF S = {} THEN 0 ELSE CHOOSE x \in S : \A y \in S : x >= y

\* C19: for a successful response with at most one series tagged ':min' and
\* at most one tagged ':max', _get_metric_stats returns as min the least
\* non-None data point of the ':min' series and as max the greatest non-None
\* data point of the ':max' series; a missing series, or one whose data
\* points are all None, gives 0 for its field.
C19_MinMaxExtraction ==
    ( /\ MetricStatsDone /\ ~Failed(world.metric)
      /\ Cardinality(Tagged(TagMin)) <= 1 /\ Cardinality(Tagged(TagMax)) <= 1 )
        => outcome = Return([ min |-> Least(TaggedPoints(TagMin)),
                              max |-> Greatest(TaggedPoints(TagMax)) ])

\* a response whose ':min' series holds two values, the least one second,
\* and whose ':max' series holds None only
C19_Witness ==
    /\ MetricStatsDone /\ ~Failed(world.metric)
    /\ Tagged(TagMin) = {1} /\ Tagged(TagMax) = {2}
    /\ \A i \in 1..2 : "data" \in DOMAIN ResponseSeries[i]
    /\ ResponseSeries[1].data[1].values = <<Point(2), Point(1)>>
    /\ ResponseSeries[2].data[1].values = <<NullPoint>>
    /\ outcome = Return([min |-> 1, max |-> 0])

(***************************************************************************)
(* Namespace matching on tags.                                              *)
(***************************************************************************)
\* a namespace-indicating tag of the entity has a value that contains the
\* namespace, case ignored
NamespaceTagContains(e, namespace) ==
    \E i \in DOMAIN EntityTags(e) :
        /\ "key" \in DOMAIN EntityTags(e)[i]
        /\ IsNamespaceKey(EntityTags(e)[i].key)
        /\ In(Lower(namespace), Lower(TagText(EntityTags(e)[i])))

\* a namespace-indicating tag of the entity has a value that is the
\* namespace, case ignored
NamespaceTagEquals(e, namespace) ==
    \E i \in DOMAIN EntityTags(e) :
        /\ "key" \in DOMAIN EntityTags(e)[i]
        /\ IsNamespaceKey(EntityTags(e)[i].key)
        /\ Lower(namespace) = Lower(TagText(EntityTags(e)[i]))

NamespacePropertyContains(e, namespace) ==
    \E k \in DOMAIN EntityProperties(e) :
        /\ IsNamespaceKey(k)
        /\ In(Lower(namespace), Lower(Str(EntityProperties(e)[k])))

\* namespace-match as C20 states it: equality for tags, substring for
\* properties
ExactBothMatch(e) ==
    /\ ClusterMatch(e, args.cluster_name)
    /\ \/ NamespaceTagEquals(e, args.namespace)
       \/ NamespacePropertyContains(e, args.namespace)

Returned(e) == \E i \in DOMAIN outcome.value : outcome.value[i] = e

\* C20 as stated: a namespace-indicating tag matches only when its value
\* equals the requested namespace (case ignored); containing it as a proper
\* substring does not make the entity namespace-matched, substring matching
\* being for properties only.
C20_TagEquality ==
    (DeploymentsDone /\ SomeNamespaceInfo)
        => outcome = Return(SelectSeq(FetchedEntities, ExactBothMatch))

\* C20 amended: an entity whose namespace information is in its tags only is
\* returned exactly when it is cluster-matched and a namespace-indicating tag
\* of it has a value that contains the requested namespace (case ignored),
\* as a proper substring or as a whole: tags are matched like properties.
C20_TagSubstring ==
    DeploymentsDone
        => \A i \in DOMAIN FetchedEntities :
            ( /\ CarriesNamespaceTag(FetchedEntities[i])
              /\ ~CarriesNamespaceProperty(FetchedEntities[i]) )
                => ( Returned(FetchedEntities[i])
                     <=> /\ ClusterMatch(FetchedEntities[i], args.cluster_name)
                         /\ NamespaceTagContains(FetchedEntities[i], args.namespace) )

\* an entity was returned whose only namespace information is a tag value
\* that properly contains the requested namespace
C20_Witness ==
    /\ DeploymentsDone
    /\ \E i \in DOMAIN FetchedEntities :
        /\ CarriesNamespaceTag(FetchedEntities[i])
        /\ ~CarriesNamespaceProperty(FetchedEntities[i])
        /\ NamespaceTagContains(FetchedEntities[i], args.namespace)
        /\ ~NamespaceTagEquals(FetchedEntities[i], args.namespace)
        /\ Returned(FetchedEntities[i])

(***************************************************************************)
(* The requests of get_workload_metrics.                                    *)
(***************************************************************************)
\* the metric request for a pod, as it goes over the wire
PodMetricGet(metric_key, pod) ==
    [ method |-> "GET", endpoint |-> "/api/v2/metrics/query",
      selector |-> <<metric_key, Get(pod, "entityId", <<>>)>> ]

PodQueryGet ==
    [ method |-> "GET", endpoint |-> "/api/v2/entities",
      selector |-> "CLOUD_APPLICATION_INSTANCE" ]

\* C21: without include_heap and with P pods listed, get_workload_metrics
\* issues exactly 1 + 2P GET requests: the pod query first, then for each
\* pod in response order its CPU request followed by its memory request; no
\* request is repeated, also when some of them fail.
C21_RequestSequence ==
    (WorkloadDone /\ ~args.include_heap)
        => /\ Len(reqlog) = 1 + 2 * NumPods
           /\ reqlog[1] = PodQueryGet
           /\ \A p \in 1..NumPods :
                /\ reqlog[2 * p] = PodMetricGet("cpu.usage", ListedPods[p])
                /\ reqlog[2 * p + 1] = PodMetricGet("memory.usage", ListedPods[p])
           /\ \A i \in DOMAIN reqlog, j \in DOMAIN reqlog :
                i # j => reqlog[i] # reqlog[j]

\* a call over two pods in which the first CPU request and the second memory
\* request failed
C21_Witness ==
    /\ WorkloadDone /\ ~args.include_heap
    /\ NumPods = 2
    /\ Failed(world.cpu[1]) /\ Failed(world.memory[2])
    /\ Len(reqlog) = 5

(***************************************************************************)
(* _get_jvm_heap_metrics.  In its world the i-th process group answers the  *)
(* primary key with world.primary[i] and the alternate key with             *)
(* world.alt[i].                                                            *)
(***************************************************************************)
HeapDone == pc = "done" /\ op = "_get_jvm_heap_metrics"

\* the process groups the lookup found; none when a query of it failed
FoundProcessGroups ==
    IF FindProcessGroups(world).outcome.kind = "return"
    THEN FindProcessGroups(world).outcome.value
    ELSE <<>>

IsNonZero(r) == r.min # 0 \/ r.max # 0

\* the process groups that report a non-zero reading for a key
Reporting(answers) ==
    {i \in DOMAIN FoundProcessGroups : IsNonZero(Reported(answers[i]))}

PrimarySilent == Reporting(world.primary) = {}

\* the readings the result is built from
UsedReadings ==
    IF ~PrimarySilent
    THEN {Reported(world.primary[i]) : i \in Reporting(world.primary)}
    ELSE {Reported(world.alt[i]) : i \in Reporting(world.alt)}

\* C22: _get_jvm_heap_metrics returns the least of the per-process-group
\* mins and the greatest of the per-process-group maxes (no sum), over the
\* process groups that report a non-zero reading; with no process group, or
\* none reporting a non-zero reading, it returns {0, 0}.
C22_HeapMinOfMinsMaxOfMaxes ==
    HeapDone
        => outcome = Return(IF UsedReadings = {} THEN [min |-> 0, max |-> 0]
                            ELSE [ min |-> Least({r.min : r \in UsedReadings}),
                                   max |-> Greatest({r.max : r \in UsedReadings}) ])

\* two process groups report {0, 1} and {1, 2}: the result is {0, 2}
C22_Witness ==
    /\ HeapDone
    /\ Len(FoundProcessGroups) = 2
    /\ Reported(world.primary[1]) = [min |-> 0, max |-> 1]
    /\ Reported(world.primary[2]) = [min |-> 1, max |-> 2]
    /\ outcome = Return([min |-> 0, max |-> 2])

\* the metric requests of the call, in order
IsMetricGet(r) == r.endpoint = "/api/v2/metrics/query"

HeapMetricGets == SelectSeq(reqlog, IsMetricGet)

\* the requests for one key: one per process group found, in order
KeyGets(metric_key) ==
    [ i \in DOMAIN FoundProcessGroups |->
        [ method |-> "GET", endpoint |-> "/api/v2/metrics/query",
          selector |-> <<metric_key, Get(FoundProcessGroups[i], "entityId", <<>>)>> ] ]

\* C23: the alternate heap metric key is requested if and only if the
\* primary key yielded no non-zero reading for any process group; it is
\* requested after all primary-key requests, once per process group, and the
\* result is built from the readings of one key only.
C23_AlternateKey ==
    (HeapDone /\ FoundProcessGroups # <<>>)
        => /\ HeapMetricGets = IF PrimarySilent
                               THEN KeyGets("usedHeap") \o KeyGets("memory.pool.used")
                               ELSE KeyGets("usedHeap")
           /\ outcome.kind = "return"
           /\ \/ ~PrimarySilent
                 /\ outcome.value.min \in {Reported(world.primary[i]).min : i \in Reporting(world.primary)}
                 /\ outcome.value.max \in {Reported(world.primary[i]).max : i \in Reporting(world.primary)}
              \/ PrimarySilent /\ Reporting(world.alt) # {}
                 /\ outcome.value.min \in {Reported(world.alt[i]).min : i \in Reporting(world.alt)}
                 /\ outcome.value.max \in {Reported(world.alt[i]).max : i \in Reporting(world.alt)}
              \/ PrimarySilent /\ Reporting(world.alt) = {}
                 /\ outcome.value = [min |-> 0, max |-> 0]

\* two process groups silent on the primary key, the second one reporting on
\* the alternate key: four metric requests
C23_Witness ==
    /\ HeapDone
    /\ Len(FoundProcessGroups) = 2
    /\ PrimarySilent
    /\ Reporting(world.alt) = {2}
    /\ Len(HeapMetricGets) = 4
    /\ outcome = Return(Reported(world.alt[2]))

(***************************************************************************)
(* The list get_deployments returns.                                        *)
(***************************************************************************)
\* s can be had from t by leaving elements out
RECURSIVE IsSubSeq(_, _)
IsSubSeq(s, t) ==
    IF s = <<>> THEN TRUE
    ELSE IF t = <<>> THEN FALSE
    ELSE IF Head(s) = Head(t) THEN IsSubSeq(Tail(s), Tail(t))
    ELSE IsSubSeq(s, Tail(t))

\* C24: the list get_deployments returns is a sub-sequence of the entity
\* list of the response: every returned entity is a fetched entity,
\* unmodified, taken at most once, in response order, on the normal and on
\* the fallback path.
C24_SubSequence ==
    DeploymentsDone
        => /\ outcome.kind = "return"
           /\ IsSubSeq(outcome.value, FetchedEntities)

\* the second of two different fetched entities was returned alone, the
\* namespace being matched on tags or properties
C24_Witness ==
    /\ DeploymentsDone /\ SomeNamespaceInfo
    /\ Len(FetchedEntities) = 2
    /\ FetchedEntities[1] # FetchedEntities[2]
    /\ outcome = Return(<<FetchedEntities[2]>>)

NoNamespaceInfo(e) == ~CarriesNamespaceTag(e) /\ ~CarriesNamespaceProperty(e)

\* C25: the cluster-only fallback is decided over the whole fetched set: if
\* any fetched entity, of the requested cluster or not, carries a
\* namespace-indicating tag or property, no cluster-matched entity without
\* namespace information is returned.
C25_FallbackOverWholeSet ==
    (DeploymentsDone /\ SomeNamespaceInfo)
        => \A i \in DOMAIN FetchedEntities :
            ( /\ ClusterMatch(FetchedEntities[i], args.cluster_name)
              /\ NoNamespaceInfo(FetchedEntities[i]) )
                => ~Returned(FetchedEntities[i])

\* an entity outside the cluster carries a namespace tag, an entity of the
\* cluster carries no namespace information: nothing is returned
C25_Witness ==
    /\ DeploymentsDone
    /\ Len(FetchedEntities) = 2
    /\ ~ClusterMatch(FetchedEntities[1], args.cluster_name)
    /\ CarriesNamespaceTag(FetchedEntities[1])
    /\ ClusterMatch(FetchedEntities[2], args.cluster_name)
    /\ NoNamespaceInfo(FetchedEntities[2])
    /\ outcome = Return(<<>>)

\* a tag of the entity has a key that is present but null
HasNullKey(e) ==
    \E i \in DOMAIN EntityTags(e) :
        "key" \in DOMAIN EntityTags(e)[i] /\ EntityTags(e)[i].key = None

\* C26: get_deployments is all-or-nothing with respect to malformed
\* entities: when the processing of any fetched entity raises (a tag whose
\* key is null), the call returns the empty list, whatever had matched
\* before.
C26_AllOrNothing ==
    (DeploymentsDone /\ \E i \in DOMAIN FetchedEntities : HasNullKey(FetchedEntities[i]))
        => outcome = Return(<<>>)

\* an entity of the requested cluster, which the fallback would return, is
\* followed by an entity with a null tag key: nothing is returned
C26_Witness ==
    /\ DeploymentsDone
    /\ Len(FetchedEntities) = 2
    /\ ~HasNullKey(FetchedEntities[1])
    /\ ClusterMatch(FetchedEntities[1], args.cluster_name)
    /\ NoNamespaceInfo(FetchedEntities[1])
    /\ HasNullKey(FetchedEntities[2])
    /\ outcome = Return(<<>>)

CarriesClusterTag(e) ==
    \E i \in DOMAIN EntityTags(e) :
        "key" \in DOMAIN EntityTags(e)[i] /\ IsClusterKey(EntityTags(e)[i].key)

\* cluster-match and namespace-match when an empty name is a wildcard
WildcardClusterMatch(e) ==
    IF args.cluster_name = <<>> THEN CarriesClusterTag(e)
    ELSE ClusterMatch(e, args.cluster_name)

WildcardNamespaceMatch(e) ==
    IF args.namespace = <<>> THEN CarriesNamespaceTag(e) \/ CarriesNamespaceProperty(e)
    ELSE NamespaceMatch(e, args.namespace)

WildcardBothMatch(e) == WildcardClusterMatch(e) /\ WildcardNamespaceMatch(e)

\* C27: an empty namespace or cluster name is a wildcard: with namespace ''
\* every entity carrying a namespace-indicating tag or property is
\* namespace-matched, with cluster_name '' every entity carrying a tag whose
\* key contains 'cluster' is cluster-matched; the call returns the entities
\* matched so, or on the fallback path the cluster-matched ones.
C27_EmptyNameIsWildcard ==
    (DeploymentsDone /\ (args.cluster_name = <<>> \/ args.namespace = <<>>))
        => outcome = Return(IF SomeNamespaceInfo
                            THEN SelectSeq(FetchedEntities, WildcardBothMatch)
                            ELSE SelectSeq(FetchedEntities, WildcardClusterMatch))

\* a call with both names empty returned an entity of the cluster "Abc"
\* whose namespace property is null
C27_Witness ==
    /\ DeploymentsDone
    /\ args.cluster_name = <<>> /\ args.namespace = <<>>
    /\ \E i \in DOMAIN FetchedEntities :
        /\ CarriesClusterTag(FetchedEntities[i])
        /\ ~CarriesNamespaceTag(FetchedEntities[i])
        /\ \E k \in DOMAIN EntityProperties(FetchedEntities[i]) :
            IsNamespaceKey(k) /\ EntityProperties(FetchedEntities[i])[k] = None
        /\ Returned(FetchedEntities[i])

\* the requests for the pods, as the loop over pods issues them
PodGets ==
    [ i \in 1..(2 * NumPods) |->
        IF i % 2 = 1 THEN PodMetricGet("cpu.usage", ListedPods[(i + 1) \div 2])
        ELSE PodMetricGet("memory.usage", ListedPods[i \div 2]) ]

\* the element is a {min, max} pair
IsPair(v) == DOMAIN v = {"min", "max"}

\* C28: the heap element of the tuple get_workload_metrics returns is None
\* exactly when include_heap is false or there is no pod, and a {min, max}
\* pair otherwise; the requests of the heap lookup come after the CPU and
\* memory requests of every pod, and there are none when the element is
\* None.
C28_HeapElement ==
    WorkloadDone
        => /\ outcome.kind = "return"
                => /\ outcome.value[3] = NoStats
                        <=> (~args.include_heap \/ outcome.value[4] = 0)
                   /\ outcome.value[3] # NoStats => IsPair(outcome.value[3])
                   /\ outcome.value[4] = NumPods
           /\ Len(reqlog) >= 1 + 2 * NumPods
           /\ SubSeq(reqlog, 1, 1 + 2 * NumPods) = <<PodQueryGet>> \o PodGets
           /\ (~args.include_heap \/ NumPods = 0) => Len(reqlog) = 1 + 2 * NumPods

\* a call with include_heap over two pods whose heap lookup found no process
\* group: the heap element is the pair {0, 0}, and the lookup's requests
\* follow the five requests for the pods
C28_Witness ==
    /\ WorkloadDone /\ args.include_heap
    /\ NumPods = 2
    /\ outcome.kind = "return"
    /\ outcome.value[3] = [min |-> 0, max |-> 0]
    /\ Len(reqlog) > 5
    /\ reqlog[6].selector = "PROCESS_GROUP runsOn deployment"

====
